---- MODULE Spec2Model ----
(***************************************************************************)
(* fishnet 1.12.2 (src/fishnet.py): the worker run loop, the backoff       *)
(* generator, the supervisor cmd_run with its signal handler, and the     *)
(* process exit code, as a state machine.                                  *)
(*                                                                         *)
(* Conventions.                                                            *)
(*  - Python 3 semantics: OSError, IOError, socket errors and              *)
(*    BrokenPipeError are one family (dead_engine_errors, line 617).       *)
(*  - An engine handle is "none" (self.stockfish is None), "running",      *)
(*    "killed" (SIGKILL has been sent and the process has not gone yet:    *)
(*    os.killpg returns without waiting, and poll() still finds it),       *)
(*    "exited" (the process is gone but poll() has not yet set returncode; *)
(*    os.killpg on it still succeeds) or "reaped" (returncode set; the     *)
(*    process group no longer exists).                                     *)
(*  - A blocking HTTP call is one step: nothing another thread does can    *)
(*    change its outcome, which the server (the environment) chooses.      *)
(*  - Floating point is IEEE round-half-even with MantissaBits bits;       *)
(*    random.random() is a multiple of 2^-MantissaBits (CPython: 53).      *)
(***************************************************************************)
EXTENDS Integers, Sequences, FiniteSets, TLC

\* ------------------------------------------------------------------ bounds
NumWorkers == 2
MaxJobs == 2
MaxMoves == 1
MaxCrashes == 1
MaxHttp == 2
SysHttp == 1
MantissaBits == 5
MaxYield == 32
CmdLogLen == 6
MaxCount == 33
MaxNoise == 1
MaxInfo == 1
MaxReports == 1
MaxSignals == 3
MaxKeyLen == 2
MaxMsgLen == 2
MaxArgLen == 2
MaxCaps == 2
MaxThreads == 2
MaxCores == 5
MaxTokens == 5
MaxLines == 2
MaxPlies == 2
MaxTime == 9

\* ------------------------------------------------------- program constants
MAX_BACKOFF == 30
MAX_FIXED_BACKOFF == 3
HASH_MIN == 16
HASH_DEFAULT == 256
HASH_MAX == 512
PROGRESS_REPORT_INTERVAL == 3

Workers == 1..NumWorkers
FirstWorker == CHOOSE w \in Workers : \A v \in Workers : w <= v
None == [id |-> 0, type |-> "none", moves |-> 0]
NoT == 0 - 1

Min(a, b) == IF a < b THEN a ELSE b

\* ------------------------------------------------------- floating point
\* Number of binary digits of n (n >= 0).
RECURSIVE BitLen(_)
BitLen(n) == IF n = 0 THEN 0 ELSE 1 + BitLen(n \div 2)

\* n, an exact multiple of the working unit, rounded to MantissaBits
\* significant bits, ties to even (the result of one double operation).
FRound(n) ==
    IF BitLen(n) <= MantissaBits THEN n
    ELSE LET q   == 2 ^ (BitLen(n) - MantissaBits)
             hi  == n \div q
             rem == n - hi * q
         IN  IF 2 * rem < q THEN hi * q
             ELSE IF 2 * rem > q THEN (hi + 1) * q
             ELSE IF hi % 2 = 0 THEN hi * q ELSE (hi + 1) * q

\* random.random(): m * 2^-MantissaBits, m in RandGrid.
RandGrid == 0..(2 ^ MantissaBits - 1)
\* Values are kept in units of 2^-(MantissaBits+1) seconds.
Unit == 2 ^ (MantissaBits + 1)

\* ------------------------------------------------------------- backoff
\* start_backoff(conf): a fresh generator; nothing runs before next().
start_backoff == [b |-> 1, started |-> FALSE]

\* The base the generator uses for the value of the next next() call:
\* the first call runs `backoff = 1`, a later one resumes after the yield
\* with `backoff = min(backoff + 1, MAX_BACKOFF)`.
NextBaseUncapped(g) == IF g.started THEN g.b + 1 ELSE 1
NextBase(g) == IF g.started THEN Min(g.b + 1, MAX_BACKOFF) ELSE 1

\* next(gen) with random.random() = m / 2^MantissaBits.
\*   fixed:        random.random() * MAX_FIXED_BACKOFF
\*   exponential:  0.5 * backoff + 0.5 * backoff * random.random()
GenValue(fixed, g, m) ==
    IF fixed THEN FRound(2 * MAX_FIXED_BACKOFF * m)
    ELSE LET b == NextBase(g)
         IN  FRound(b * 2 ^ MantissaBits + FRound(b * m))

GenAdvanceStuck(fixed, g) == [b |-> g.b, started |-> TRUE]
GenAdvance(fixed, g) ==
    IF fixed THEN [b |-> g.b, started |-> TRUE]
    ELSE [b |-> NextBase(g), started |-> TRUE]

\* ------------------------------------------------------ helper functions
\* Text is a sequence of characters.  The characters of a key and of an
\* argument come from Alphabet; a message template also holds the
\* conversion "%s", written as one token (no character of Alphabet is part
\* of it, so str.replace never matches across it).
Alphabet == {"k", "e"}
Texts(n) == UNION {[1..m -> Alphabet] : m \in 0..n}
Placeholders(msg) == {i \in DOMAIN msg : msg[i] = "%s"}
Templates ==
    {msg \in UNION {[1..m -> Alphabet \cup {"%s"}] : m \in 0..MaxMsgLen} :
        Cardinality(Placeholders(msg)) <= 1}
\* A Python value passed to a logging call: a str, or any other object
\* with the text str() gives for it.
PyStr(x) == [py |-> "str", s |-> x]
PyValues == [py : {"str", "object"}, s : Texts(MaxArgLen)]

\* str.replace(old, new) for a non-empty old: the occurrences of old are
\* replaced from left to right, without overlap.
RECURSIVE Replace(_, _, _)
Replace(x, old, new) ==
    IF Len(x) < Len(old) THEN x
    ELSE IF SubSeq(x, 1, Len(old)) = old
         THEN new \o Replace(SubSeq(x, Len(old) + 1, Len(x)), old, new)
         ELSE <<Head(x)>> \o Replace(Tail(x), old, new)

Stars(n) == [i \in 1..n |-> "*"]

\* CensorLogFilter.censor, lines 201-214.
censor(keyword, msg) ==
    IF msg.py # "str" THEN msg
    ELSE IF keyword # <<>>
         THEN PyStr(Replace(msg.s, keyword, Stars(Len(keyword))))
         ELSE msg

\* CensorLogFilter.filter, lines 216-219, on a record's msg and args.
filter(keyword, record) ==
    [msg |-> censor(keyword, record.msg),
     args |-> [i \in DOMAIN record.args |-> censor(keyword, record.args[i])]]

\* LogRecord.getMessage: msg % args, every "%s" replaced by str() of the
\* next argument (msg itself when there are no arguments).
RECURSIVE Format(_, _)
Format(msg, args) ==
    IF msg = <<>> THEN <<>>
    ELSE IF Head(msg) = "%s" /\ args # <<>>
         THEN Head(args).s \o Format(Tail(msg), Tail(args))
         ELSE <<Head(msg)>> \o Format(Tail(msg), args)

\* A variant name: its letters in lower case and the positions written in
\* upper case ("Standard" is standard with position 1 raised).
VariantWords == {"standard", "fromposition", "chess960", "antichess",
                 "kingofthehill", "atomic"}
Word(b) == [base |-> b, caps |-> {}]
Variants == [base : VariantWords, caps : SUBSET (1..MaxCaps)]
\* str.lower().
LowerKeepsCase(v) == v
Lower(v) == [v EXCEPT !.caps = {}]

PyBool(b) == [py |-> "bool", b |-> b]
\* setoption, lines 450-458: the option's name and the value as sent.
setoption(name, value) ==
    <<name, IF value.py = "bool"
            THEN (IF value.b THEN Word("true") ELSE Word("false"))
            ELSE value.s>>

\* set_variant_options, lines 554-564: the setoption commands it sends.
set_variant_options(variant) ==
    LET v == Lower(variant)
    IN  <<setoption("UCI_Chess960",
                    PyBool(v \in {Word("fromposition"), Word("chess960")})),
          IF v \in {Word("standard"), Word("fromposition"), Word("chess960")}
          THEN setoption("UCI_Variant", PyStr(Word("chess")))
          ELSE IF v = Word("antichess")
               THEN setoption("UCI_Variant", PyStr(Word("giveaway")))
               ELSE setoption("UCI_Variant", PyStr(v))>>

NoCall == [fn |-> "none"]

\* Lines 108-109.
LVL_MOVETIMES == <<50, 100, 150, 200, 300, 400, 500, 1000>>
LVL_DEPTHS == <<1, 1, 2, 3, 5, 8, 13, 22>>
Levels == 1..Len(LVL_MOVETIMES)

\* int(round(a / b)) for a >= 0 and b > 0, as the set of results the
\* supported interpreters give: Python 2 rounds a tie away from zero,
\* Python 3 to the even neighbour.
pytrunc(a, b) == {a \div b}
pyround(a, b) ==
    LET q == a \div b
        r == a % b
    IN  IF 2 * r < b THEN {q}
        ELSE IF 2 * r > b THEN {q + 1}
        ELSE {q + 1, IF q % 2 = 0 THEN q ELSE q + 1}

\* bestmove, line 765: int(round((lvl - 1) * 20.0 / 7)).
SkillLevels(lvl) == pyround((lvl - 1) * 20, 7)
\* bestmove, line 768:
\* int(round(LVL_MOVETIMES[lvl - 1] / (threads * 0.9 ** (threads - 1)))).
Movetimes(lvl, threads) ==
    pyround(LVL_MOVETIMES[lvl] * 10 ^ (threads - 1), threads * 9 ^ (threads - 1))

\* An optional argument is <<>> (None) or <<v>>.
Opt(S) == {<<>>} \cup {<<v>> : v \in S}
\* go, lines 465-484: the fields of the go line after the word "go", each
\* with its value.
GoField(name, arg) == IF arg = <<>> THEN <<>> ELSE << <<name, arg[1]>> >>
ClockFields(clock) ==
    IF clock = <<>> THEN <<>>
    ELSE << <<"wtime", clock[1].wtime * 10>>, <<"btime", clock[1].btime * 10>>,
            <<"winc", clock[1].inc * 1000>>, <<"binc", clock[1].inc * 1000>> >>
GoLineNodesFirst(movetime, clock, depth, nodes) ==
    GoField("nodes", nodes) \o GoField("movetime", movetime)
        \o GoField("depth", depth) \o ClockFields(clock)
GoLine(movetime, clock, depth, nodes) ==
    GoField("movetime", movetime) \o GoField("depth", depth)
        \o GoField("nodes", nodes) \o ClockFields(clock)
\* cmd_run, lines 1519-1521: cores dealt out to the buckets one at a time,
\* core i to bucket i % instances (buckets are numbered from 1 here).
RECURSIVE Deal(_, _, _)
Deal(buckets, i, cores) ==
    IF i >= cores THEN buckets
    ELSE LET j == (i % Len(buckets)) + 1
         IN  Deal([buckets EXCEPT ![j] = buckets[j] + 1], i + 1, cores)
BucketsAllFirst(cores, instances) ==
    [j \in 1..instances |-> IF j = 1 THEN cores ELSE 0]
Buckets(cores, instances) == Deal([j \in 1..instances |-> 0], 0, cores)
Max(a, b) == IF a >= b THEN a ELSE b
\* cmd_run, line 1493.
Instances(cores, threads) == Max(1, cores \div threads)
\* validate_memory, lines 1331-1349: the totals it accepts for `processes`
\* engine processes (the ends of the range and the default plus one).
Memories(processes) ==
    {processes * HASH_MIN, processes * HASH_DEFAULT + 1, processes * HASH_MAX}

\* ---- go, lines 488-549: the info lines of one search
\* The tokens an info line is made of here: keywords, the words of a score,
\* integers and a move.
IntParams == {"depth", "multipv"}
Keywords == IntParams \cup {"string"}
ScoreKinds == {"cp", "mate"}
ScoreBounds == {"lowerbound"}
IntTokens == {"1", "2"}
Tokens == Keywords \cup {"score", "pv"} \cup ScoreKinds \cup ScoreBounds
              \cup IntTokens \cup {"e2e4"}
\* int(token) for the tokens it accepts; it raises ValueError for the others.
IntOf(tok) == IF tok = "1" THEN 1 ELSE 2

\* info = {} (line 487) with the keys the claims read: each is absent
\* (<<>>) or holds a value (<<v>>); text is kept as its list of tokens,
\* which the code joins with single spaces.
EmptyInfo == [depth |-> <<>>, multipv |-> <<>>, pv |-> <<>>, string |-> <<>>,
              score |-> <<>>]
\* Lines 510-513, 543-546: info[key] += " " + token, or info[key] = token.
AppendText(opt, tok) ==
    IF opt = <<>> THEN << <<tok>> >> ELSE << Append(opt[1], tok) >>
\* Line 507: current_parameter == "string".
InStringNever(cur) == FALSE
InString(cur) == cur = "string"
\* Lines 518 and 540: info.get("multipv", 1) == 1.
MultipvAny(info) == TRUE
MultipvIsOne(info) == info.multipv \in {<<>>, <<1>>}
\* Line 548: score_kind and score_value is not None and not score_bound.
ScoreCompleteBoundOrNot(c) == c.sk # "None" /\ c.sv # <<>>
ScoreComplete(c) == c.sk # "None" /\ c.sv # <<>> /\ ~c.sb

\* Lines 503-504: the locals of one info line.
LineStart(c) == [c EXCEPT !.cur = "None", !.sk = "None", !.sv = <<>>, !.sb = FALSE]
\* Lines 505-546: one token, through the if/elif chain.  A token read with
\* no parameter current, or under a text parameter whose key no claim reads,
\* goes to a key that is not kept here.
ParseToken(c, tok) ==
    IF InString(c.cur)
    THEN [c EXCEPT !.info.string = AppendText(@, tok)]
    ELSE IF tok = "score" THEN [c EXCEPT !.cur = "score"]
    ELSE IF tok = "pv"
    THEN [c EXCEPT !.cur = "pv",
                   !.info.pv = IF MultipvIsOne(c.info) THEN <<>> ELSE @]
    ELSE IF tok \in Keywords THEN [c EXCEPT !.cur = tok, !.info[tok] = <<>>]
    ELSE IF c.cur \in IntParams
    THEN IF tok \in IntTokens THEN [c EXCEPT !.info[c.cur] = <<IntOf(tok)>>]
         ELSE [c EXCEPT !.status = "ValueError"]
    ELSE IF c.cur = "score"
    THEN IF tok \in ScoreKinds THEN [c EXCEPT !.sk = tok, !.sv = <<>>]
         ELSE IF tok \in ScoreBounds THEN [c EXCEPT !.sb = TRUE]
         ELSE IF tok \in IntTokens THEN [c EXCEPT !.sv = <<IntOf(tok)>>]
         ELSE [c EXCEPT !.status = "ValueError"]
    ELSE IF c.cur # "pv" \/ MultipvIsOne(c.info)
    THEN IF c.cur \in {"pv", "string"}
         THEN [c EXCEPT !.info[c.cur] = AppendText(@, tok)]
         ELSE c
    ELSE c
\* Lines 548-549, at the end of the line.
LineEnd(c) ==
    IF ScoreComplete(c)
    THEN [c EXCEPT !.info.score = << [kind |-> c.sk, value |-> c.sv[1]] >>]
    ELSE c

\* What an observer of the engine's output knows, without the parser: the
\* parameter the tokens read so far of a line leave in force,
RECURSIVE Ctx(_)
Ctx(line) ==
    IF line = <<>> THEN "None"
    ELSE LET before == Ctx(SubSeq(line, 1, Len(line) - 1))
             tok == line[Len(line)]
         IN  IF before = "string" THEN "string"
             ELSE IF tok \in Keywords \cup {"score", "pv"} THEN tok
             ELSE before
\* and, per integer keyword, the last value given for it in the search
\* (given) and the value given since its last occurrence (since); and the
\* tokens of the last pv run read while multipv was 1 or absent (run).
Observe(h, tok) ==
    LET ctx == Ctx(h.line)
        isKw == ctx # "string" /\ tok \in Keywords \cup {"score", "pv"}
        isVal(k) == ctx = k /\ tok \in IntTokens
        one == h.since["multipv"] \in {<<>>, <<1>>}
    IN  [h EXCEPT
           !.line = Append(@, tok),
           !.given = [k \in IntParams |->
                         IF isVal(k) THEN <<IntOf(tok)>> ELSE h.given[k]],
           !.since = [k \in IntParams |->
                         IF isKw /\ tok = k THEN <<>>
                         ELSE IF isVal(k) THEN <<IntOf(tok)>> ELSE h.since[k]],
           !.run = IF isKw /\ tok = "pv" /\ one THEN <<>>
                   ELSE IF ctx = "pv" /\ ~isKw /\ one THEN AppendText(@, tok)
                   ELSE @]

\* ---- go, lines 494-499: the bestmove line
\* What can follow `bestmove` on the engine's line, as arg.split() gives it:
\* nothing, `(none)`, a move, a move and a ponder move.
BestmoveArgs == {<<>>, <<"(none)">>, <<"e2e4">>, <<"e2e4", "ponder", "e7e5">>}
\* Lines 495-497: bestmove = arg.split()[0] raises IndexError on an empty
\* list; info["bestmove"] stays None for `(none)`.
ParseBestmove(args) ==
    IF args = <<>> THEN [raised |-> "IndexError", bestmove |-> <<>>]
    ELSE [raised |-> "none",
          bestmove |-> IF args[1] # "(none)" THEN <<args[1]>> ELSE <<>>]

\* ---- Worker.analysis, lines 830-835: post-validation of a search result
\* The results go() can return, with the keys the validation reads: each is
\* absent (<<>>) or present (<<v>>).
Parts == [score : Opt({[kind |-> "cp", value |-> 1], [kind |-> "mate", value |-> 1]}),
          time : Opt({50, 100}),
          nps : Opt({99999999, 100000000})]
\* Line 830 evaluates part["score"] first (KeyError when no line of the
\* search set a score); lines 833-835 delete an exorbitant nps.
PostValidate(part) ==
    IF part.score = <<>> THEN [raised |-> "KeyError", part |-> part]
    ELSE [raised |-> "none",
          part |-> IF part.nps # <<>> /\ part.nps[1] >= 100000000
                   THEN [part EXCEPT !.nps = <<>>] ELSE part]

\* ---- Worker.analysis, lines 806-840: the loop over the plies
\* Line 819: a report is due when the interval has passed on the clock.
ReportDueAtInterval(last, now) == last + PROGRESS_REPORT_INTERVAL <= now
ReportDue(last, now) == last + PROGRESS_REPORT_INTERVAL < now
\* send_analysis_progress, lines 792-799: True when http() returned a
\* response, whatever its status (one other than 204 is only logged); False
\* when anything was raised (http() raises on a 4xx, a 5xx and an I/O error).
Delivered(o) == o \in {"204", "200"}
\* Line 805: one entry per element of moves and one more, all None.
NewAnalysis(len) == [i \in 0..len |-> <<>>]
\* Line 840: result["analysis"][ply] = part.
StoreAtNext(analysis, ply, part) ==
    [i \in DOMAIN analysis |->
        IF i = ply THEN <<part>>
        ELSE IF i = ply + 1 THEN <<>> ELSE analysis[i]]
StoreAt(analysis, ply, part) == [analysis EXCEPT ![ply] = <<part>>]
\* What a ply's search can return in this part of the model.
SearchResults == {p \in Parts : p.time = <<100>> /\ p.nps # <<99999999>>}
\* How long a report's POST can take, in seconds.
PostTimes == {0, 1}

\* ---- Worker.bestmove, lines 764-787: what it does with the engine, in order
bestmoveScriptSkillUnsynced ==
    <<"chess960", "variant", "isready", "readyok", "skill", "position",
      "isready", "readyok", "go", "bestmove", "isready", "readyok", "return">>
bestmoveScript ==
    <<"chess960", "variant", "skill", "isready", "readyok", "position",
      "isready", "readyok", "go", "bestmove", "isready", "readyok", "return">>
\* The line a sending step writes for the move job c.
MoveLine(c, what) ==
    CASE what = "chess960" -> <<"setoption", set_variant_options(c.variant)[1]>>
      [] what = "variant" -> <<"setoption", set_variant_options(c.variant)[2]>>
      [] what = "skill" -> <<"setoption", <<"Skill Level", c.skill>> >>
      [] what = "go" -> <<"go", c.line>>
      [] OTHER -> <<what, <<>> >>

\* The clocks a job can carry: centiseconds left and the increment in seconds.
Clocks == {[wtime |-> 6000, btime |-> 6000, inc |-> 0],
           [wtime |-> 1, btime |-> 2, inc |-> 3]}

\* ---------------------------------------------------------------- state
VARIABLES
    fixedBackoff,   \* conf FixedBackoff (read-only after startup)
    pc,             \* per worker: position in Worker.run / run_inner
    alive,          \* Worker.alive
    sleepEv,        \* Worker.sleep (threading.Event)
    finished,       \* Worker.finished (threading.Event)
    fatal_error,    \* Worker.fatal_error ("none" or the exception's type)
    job,            \* Worker.job
    stockfish,      \* Worker.stockfish: state of the engine handle
    backoff,        \* Worker.backoff (generator state)
    t,              \* run_inner's local t (the value being slept), else NoT
    aliveLocal,     \* run_inner's local `alive` of the dead-engine branch
    todo,           \* UCI commands the current engine dialogue still has to send
    awaiting,       \* the driver is blocked reading the reply to Head(todo)
    path,           \* the (path, request) pair work() returned
    nextId,         \* server: id of the next job it hands out
    crashes,        \* environment: engines that died on their own so far
    budget,         \* server: run-loop POSTs it still answers as it likes
    tail,           \* server: whether it answers later POSTs (with 204)
    \* cmd_run and main (the main thread)
    spc,            \* position of the main thread in cmd_run / main
    supI,           \* the worker the current for loop of cmd_run is at
    ignore,         \* SignalHandler.ignore
    supExc,         \* the exception propagating in the main thread, or "none"
    exitCode,       \* the process's exit status, -1 while it runs
    hnd,            \* signal handlers running in the main thread, innermost last
    delivered,      \* signals delivered to the process so far
    raisedN,        \* exceptions the signal handlers have raised so far
    call,           \* the last call of a helper function: its inputs and result
    \* history (not program state)
    cmds,           \* commands sent to the current engine handle (first CmdLogLen)
    trail,          \* observable events of the worker's current iteration
    prev,           \* observable events of the worker's previous iteration
    lastResp,       \* outcome of the run-loop POST of the current iteration
    drawn,          \* next(self.backoff) calls of the current iteration
    yielded,        \* values the current generator has yielded (up to MaxYield)
    resultPosted,   \* job ids whose result POST got an HTTP response
    abortTried,     \* job ids for which POST abort/<id> was attempted
    stopCalled,     \* stop() has been called on the worker
    idle,           \* the run of 204 acquires since Init: [ok, n, acq, bases]
    wire,           \* lines written to and read from the engine in the current dialogue
    abortResp       \* outcome of the abort POST of the current iteration, or "none"

wvars == <<pc, alive, sleepEv, finished, fatal_error, job, stockfish, backoff,
           t, aliveLocal, todo, awaiting, path>>
evars == <<nextId, crashes, budget, tail>>
svars == <<spc, supI, ignore, supExc, exitCode, hnd, delivered, raisedN, call>>
hvars == <<cmds, trail, prev, lastResp, drawn, yielded, resultPosted, abortTried,
           stopCalled, idle, wire, abortResp>>

Upd(f, w, v) == [f EXCEPT ![w] = v]

\* Append to a log that keeps only its first CmdLogLen entries.
LogCmd(log, c) == IF Len(log) < CmdLogLen THEN Append(log, c) ELSE log

Note(tr, e) == Append(tr, e)

JobTypes == {"analysis", "move", "other"}
Jobs == [id : 1..MaxJobs, type : JobTypes, moves : 0..MaxMoves]

\* ------------------------------------------------------- engine dialogues
\* A command is <<line, stage>>; uci, isready and go block until the
\* engine's terminal line (uciok, readyok, bestmove) has been read.
BlockingOnlyGo(c) == c[1] = "go"
Blocking(c) == c[1] \in {"uci", "isready", "go"}

\* The line that ends the read loop of uci(), isready() and go().
Terminal(line) == CASE line = "uci" -> "uciok"
                    [] line = "isready" -> "readyok"
                    [] line = "go" -> "bestmove"

\* start_stockfish after open_process: uci(), setoption for threads and
\* hash (no custom [Stockfish] options configured), isready().
StartScriptUnsynced == << <<"uci", "start">>, <<"isready", "start">>,
                         <<"setoption threads", "start">>,
                         <<"setoption hash", "start">> >>
StartScript == << <<"uci", "start">>, <<"setoption threads", "start">>,
                  <<"setoption hash", "start">>, <<"isready", "start">> >>

\* go(): position, isready, go ... bestmove, isready.
GoScript == << <<"position", "search">>, <<"isready", "search">>,
               <<"go", "search">>, <<"isready", "search_end">> >>

\* set_variant_options: two setoption commands.
VariantScript == << <<"setoption UCI_Chess960", "job">>,
                    <<"setoption UCI_Variant", "job">> >>

\* Worker.bestmove: variant, Skill Level, isready, one go().
MoveScript == VariantScript \o << <<"setoption Skill Level", "job">>,
                                  <<"isready", "job">> >> \o GoScript

\* len(job["moves"].split(" ")): "".split(" ") is [""], of length 1.
SplitLen(m) == IF m = 0 THEN 1 ELSE m

RECURSIVE Repeat(_, _)
Repeat(s, n) == IF n = 0 THEN <<>> ELSE s \o Repeat(s, n - 1)

\* Worker.analysis: variant, Skill Level, isready, ucinewgame, isready,
\* then one go() for each ply in range(len(moves), -1, -1).
AnalysisScript(j) ==
    VariantScript \o << <<"setoption Skill Level", "job">>, <<"isready", "job">>,
                        <<"ucinewgame", "job">>, <<"isready", "job">> >>
                  \o Repeat(GoScript, SplitLen(j.moves) + 1)

StartCmds == [i \in 1..Len(StartScript) |-> StartScript[i][1]]

\* ------------------------------------------------------------ HTTP replies
\* What the server can answer to a run-loop POST: <<status, body, job>>.
\*   200 "job"      a well-formed Job object (the third component)
\*   200 "notjson"  a body json.loads rejects
\*   4xx bodies     by what json.loads(body)["error"] and the `in` test do
Bodies4xx == {"notjson", "nonobject", "noerror", "upgrade", "othermsg",
              "errlist_has", "errlist_hasnot", "errscalar"}
Responses(id) ==
    {<<"200", "job", j>> : j \in {x \in Jobs : x.id = id}}
    \cup {<<"204", "", None>>, <<"200", "notjson", None>>, <<"5xx", "", None>>,
          <<"ioerror", "", None>>}
    \cup {<<"4xx", b, None>> : b \in Bodies4xx}
NoResp == <<"none", "", None>>

\* Lines 655-665: the outcome of the try block of the HttpClientError branch.
\*   notjson        json.loads raises ValueError            -> caught, logged
\*   noerror        {...}["error"] raises KeyError          -> caught, logged
\*   nonobject      [..]["error"], "s"["error"], 5["error"], None["error"]
\*                  raise TypeError                         -> not caught
\*   errscalar      "Please ..." in 5 / None raises TypeError -> not caught
\*   upgrade        error is a string containing the message -> UpdateRequired
\*   othermsg       error is a string without the message
\*   errlist_has    error is a list (or object) with the message as an
\*                  element (key): `in` is True              -> UpdateRequired
\*   errlist_hasnot error is a list (or object) without it
Classify4xx(body) ==
    CASE body \in {"upgrade", "errlist_has"} -> "UpdateRequired"
      [] body \in {"nonobject", "errscalar"} -> "TypeError"
      [] OTHER -> "backoff"

\* ---------------------------------------------------------------- helpers
\* t = next(self.backoff), with random.random() drawn from S.
DrawFrom(w, S) ==
    \E m \in S :
        /\ t' = Upd(t, w, GenValue(fixedBackoff, backoff[w], m))
        /\ backoff' = Upd(backoff, w, GenAdvance(fixedBackoff, backoff[w]))
        /\ drawn' = Upd(drawn, w, drawn[w] + 1)
        /\ yielded' = Upd(yielded, w, Min(yielded[w] + 1, MaxYield))

\* In the run loop the value only feeds sleep.wait: the two ends of
\* random.random()'s range stand for all of it.
RandEnds == {0, 2 ^ MantissaBits - 1}
Draw(w) == DrawFrom(w, RandEnds)

\* The base of the value the next next() yields (0 in fixed mode).
BaseOfNext(w) == IF fixedBackoff THEN 0 ELSE NextBase(backoff[w])

\* kill_process(p): None has no send_signal and no pid (AttributeError);
\* os.killpg on a reaped process group raises OSError (ESRCH).
KillRaises(h) == CASE h = "none" -> "AttributeError"
                   [] h = "reaped" -> "OSError"
                   [] OTHER -> "none"
KillResult(h) == IF h = "running" THEN "killed" ELSE h

BrokenIdle == [ok |-> FALSE, n |-> 0, acq |-> 0, bases |-> <<>>]

\* The workers are daemon threads: they run while the process does, and
\* they touch nothing of the main thread.
Running == exitCode = -1 /\ UNCHANGED svars

\* ------------------------------------------------------------- Worker.run
\* run(), line 604: `while self.is_alive()`.
LoopTest(w) ==
    /\ Running
    /\ pc[w] = "loop"
    /\ pc' = Upd(pc, w, IF alive[w] THEN "poll" ELSE "finish")
    /\ prev' = Upd(prev, w, trail[w])
    /\ trail' = Upd(trail, w, <<>>)
    /\ lastResp' = Upd(lastResp, w, NoResp)
    /\ drawn' = Upd(drawn, w, 0)
    /\ UNCHANGED <<fixedBackoff, alive, sleepEv, finished, fatal_error, job,
                   stockfish, backoff, t, aliveLocal, todo, awaiting, path>>
    /\ UNCHANGED <<evars, cmds, yielded, resultPosted, abortTried, stopCalled, idle>>
    /\ UNCHANGED wire
    /\ abortResp' = Upd(abortResp, w, "none")
\* run(), line 612: `finally: self.finished.set()`.
Finish(w) ==
    /\ Running
    /\ pc[w] = "finish"
    /\ pc' = Upd(pc, w, "done")
    /\ finished' = Upd(finished, w, TRUE)
    /\ UNCHANGED <<fixedBackoff, alive, sleepEv, fatal_error, job,
                   stockfish, backoff, t, aliveLocal, todo, awaiting, path>>
    /\ UNCHANGED <<evars, hvars>>

\* run_inner, lines 624-628: poll the handle, decide whether to restart.
Poll(w) ==
    /\ Running
    /\ pc[w] = "poll"
    /\ LET h == IF stockfish[w] = "exited" THEN "reaped" ELSE stockfish[w]
       IN  /\ stockfish' = Upd(stockfish, w, h)
           /\ pc' = Upd(pc, w, IF h \in {"none", "reaped"} THEN "spawn" ELSE "work")
    /\ UNCHANGED <<fixedBackoff, alive, sleepEv, finished, fatal_error, job,
                   backoff, t, aliveLocal, todo, awaiting, path>>
    /\ UNCHANGED <<evars, hvars>>

\* start_stockfish, line 705: self.stockfish = open_process(...).
SpawnOk(w) ==
    /\ Running
    /\ pc[w] = "spawn"
    /\ stockfish' = Upd(stockfish, w, "running")
    /\ todo' = Upd(todo, w, StartScript)
    /\ pc' = Upd(pc, w, "handshake")
    /\ cmds' = Upd(cmds, w, <<>>)
    /\ trail' = Upd(trail, w, Note(trail[w], <<"spawn", 0>>))
    /\ idle' = Upd(idle, w, IF stockfish[w] = "none" THEN idle[w] ELSE BrokenIdle)
    /\ UNCHANGED <<fixedBackoff, alive, sleepEv, finished, fatal_error, job,
                   backoff, t, aliveLocal, awaiting, path>>
    /\ UNCHANGED <<evars, lastResp, drawn, resultPosted, abortTried, stopCalled, prev, yielded>>
    /\ wire' = Upd(wire, w, <<>>)
    /\ UNCHANGED abortResp
\* open_process raises OSError (fork failure, missing cwd): the handle
\* keeps its old value and the dead-engine branch runs.
SpawnFail(w) ==
    /\ Running
    /\ pc[w] = "spawn"
    /\ pc' = Upd(pc, w, "dead")
    /\ trail' = Upd(trail, w, Note(trail[w], <<"dead", 0>>))
    /\ idle' = Upd(idle, w, BrokenIdle)
    /\ UNCHANGED <<fixedBackoff, alive, sleepEv, finished, fatal_error, job,
                   stockfish, backoff, t, aliveLocal, todo, awaiting, path>>
    /\ UNCHANGED <<evars, cmds, lastResp, drawn, resultPosted, abortTried, stopCalled, prev, yielded>>
    /\ UNCHANGED wire
    /\ UNCHANGED abortResp
\* Where a finished dialogue continues: start_stockfish returns to
\* run_inner line 632; analysis()/bestmove() return to work(), which
\* returns (path, request) to run_inner line 635.
PathAfterStale(w) == path[w]
AfterDialogue(w) == IF pc[w] = "handshake" THEN "work" ELSE "post"
PathAfter(w) == IF pc[w] = "handshake" THEN path[w]
                ELSE [kind |-> job[w].type, id |-> job[w].id]

\* send(p, line) on a dialogue's next command.  The pipe of a killed
\* engine takes the line as long as the process has not gone.
EngineSend(w) ==
    /\ Running
    /\ pc[w] \in {"handshake", "exec"}
    /\ ~awaiting[w]
    /\ todo[w] # <<>>
    /\ IF stockfish[w] \in {"running", "killed"}
       THEN /\ cmds' = Upd(cmds, w, LogCmd(cmds[w], Head(todo[w])[1]))
            /\ IF Blocking(Head(todo[w]))
               THEN /\ awaiting' = Upd(awaiting, w, TRUE)
                    /\ UNCHANGED <<todo, pc, path>>
               ELSE /\ todo' = Upd(todo, w, Tail(todo[w]))
                    /\ pc' = Upd(pc, w, IF Tail(todo[w]) = <<>>
                                        THEN AfterDialogue(w) ELSE pc[w])
                    /\ path' = Upd(path, w, IF Tail(todo[w]) = <<>>
                                            THEN PathAfter(w) ELSE path[w])
                    /\ UNCHANGED awaiting
            /\ UNCHANGED <<trail, idle>>
       ELSE \* the write fails with BrokenPipeError
            /\ pc' = Upd(pc, w, "dead")
            /\ todo' = Upd(todo, w, <<>>)
            /\ trail' = Upd(trail, w, Note(trail[w], <<"dead", 0>>))
            /\ idle' = Upd(idle, w, BrokenIdle)
            /\ UNCHANGED <<cmds, awaiting, path>>
    /\ UNCHANGED <<fixedBackoff, alive, sleepEv, finished, fatal_error, job,
                   stockfish, backoff, t, aliveLocal>>
    /\ UNCHANGED <<evars, lastResp, drawn, resultPosted, abortTried, stopCalled, prev, yielded>>
    /\ wire' = Upd(wire, w, IF stockfish[w] \in {"running", "killed"}
                         THEN Append(wire[w], <<"send", Head(todo[w])[1]>>)
                         ELSE wire[w])
    /\ UNCHANGED abortResp
\* recv_uci(p) returns the terminal line of the pending command; the
\* lines before it are parsed without an exception.
EngineReply(w) ==
    /\ Running
    /\ awaiting[w]
    /\ stockfish[w] = "running"
    /\ awaiting' = Upd(awaiting, w, FALSE)
    /\ todo' = Upd(todo, w, Tail(todo[w]))
    /\ pc' = Upd(pc, w, IF Tail(todo[w]) = <<>> THEN AfterDialogue(w) ELSE pc[w])
    /\ path' = Upd(path, w, IF Tail(todo[w]) = <<>> THEN PathAfter(w) ELSE path[w])
    /\ UNCHANGED <<fixedBackoff, alive, sleepEv, finished, fatal_error, job,
                   stockfish, backoff, t, aliveLocal>>
    /\ UNCHANGED evars
    /\ UNCHANGED <<cmds, trail, prev, lastResp, drawn, yielded,
                   resultPosted, abortTried, stopCalled, idle>>
    /\ wire' = Upd(wire, w, Append(wire[w], <<"read", Terminal(Head(todo[w])[1])>>))
    /\ UNCHANGED abortResp
\* The engine's output makes the driver or the job executor raise an
\* exception that is no dead-engine error: int(token) on a malformed info
\* line (ValueError, line 530/539), arg.split()[0] on a bare `bestmove`
\* (IndexError, line 495), part["score"] when no score was reported
\* (KeyError, line 830, after the search's closing isready).
EngineReplyBad(w) ==
    /\ Running
    /\ awaiting[w]
    /\ stockfish[w] = "running"
    /\ \/ Head(todo[w])[1] = "go"
       \/ Head(todo[w])[2] = "search_end" /\ job[w].type = "analysis"
    /\ awaiting' = Upd(awaiting, w, FALSE)
    /\ todo' = Upd(todo, w, <<>>)
    /\ pc' = Upd(pc, w, "exc")
    /\ trail' = Upd(trail, w, Note(trail[w], <<"exc", job[w].id>>))
    /\ UNCHANGED <<fixedBackoff, alive, sleepEv, finished, fatal_error, job,
                   stockfish, backoff, t, aliveLocal, path>>
    /\ UNCHANGED <<evars, cmds, lastResp, drawn, resultPosted, abortTried,
                   stopCalled, idle, prev, yielded>>
    /\ UNCHANGED wire
    /\ UNCHANGED abortResp
\* recv(p), lines 389-391: readline() returns "" on a dead engine.
EngineEOF(w) ==
    /\ Running
    /\ awaiting[w]
    /\ stockfish[w] \notin {"running", "killed"}
    /\ awaiting' = Upd(awaiting, w, FALSE)
    /\ pc' = Upd(pc, w, "dead")
    /\ trail' = Upd(trail, w, Note(trail[w],
           IF Head(todo[w])[2] \in {"search", "search_end"}
           THEN <<"eof", job[w].id>> ELSE <<"dead", 0>>))
    /\ todo' = Upd(todo, w, <<>>)
    /\ idle' = Upd(idle, w, BrokenIdle)
    /\ UNCHANGED <<fixedBackoff, alive, sleepEv, finished, fatal_error, job,
                   stockfish, backoff, t, aliveLocal, path>>
    /\ UNCHANGED <<evars, cmds, lastResp, drawn, resultPosted, abortTried, stopCalled, prev, yielded>>
    /\ UNCHANGED wire
    /\ UNCHANGED abortResp
\* Worker.work, lines 740-753.
WorkWithoutJob(w) ==
    /\ Running
    /\ pc[w] = "work"
    /\ todo' = Upd(todo, w, MoveScript)
    /\ pc' = Upd(pc, w, "exec")
    /\ UNCHANGED <<fixedBackoff, alive, sleepEv, finished, fatal_error, job,
                   stockfish, backoff, t, aliveLocal, awaiting, path>>
    /\ UNCHANGED <<evars, hvars>>
Work(w) ==
    /\ Running
    /\ pc[w] = "work"
    /\ IF job[w].type = "analysis"
       THEN /\ todo' = Upd(todo, w, AnalysisScript(job[w]))
            /\ pc' = Upd(pc, w, "exec")
            /\ UNCHANGED path
       ELSE IF job[w].type = "move"
       THEN /\ todo' = Upd(todo, w, MoveScript)
            /\ pc' = Upd(pc, w, "exec")
            /\ UNCHANGED path
       ELSE /\ path' = Upd(path, w, [kind |-> "acquire", id |-> 0])
            /\ pc' = Upd(pc, w, "post")
            /\ UNCHANGED todo
    /\ UNCHANGED <<fixedBackoff, alive, sleepEv, finished, fatal_error, job,
                   stockfish, backoff, t, aliveLocal, awaiting>>
    /\ UNCHANGED evars
    /\ UNCHANGED <<cmds, trail, prev, lastResp, drawn, yielded,
                   resultPosted, abortTried, stopCalled, idle>>
    /\ wire' = Upd(wire, w, <<>>)
    /\ UNCHANGED abortResp
\* The server answers its first `budget` run-loop POSTs as it likes and
\* every later one with 204.
Charge(resp) == IF budget > 0 THEN budget' = budget - 1
                ELSE tail /\ resp[1] = "204" /\ UNCHANGED budget

\* What the idle-run history becomes after a run-loop POST.
IdleAfter(w, resp) ==
    IF idle[w].ok /\ job[w] = None /\ resp[1] = "204" /\ idle[w].n < MaxCount
    THEN [ok |-> TRUE, n |-> idle[w].n + 1,
          acq |-> idle[w].acq + (IF path[w].kind = "acquire" THEN 1 ELSE 0),
          bases |-> Append(idle[w].bases, BaseOfNext(w))]
    ELSE BrokenIdle

\* self.job = None, lines 637, 647 and 652.
ClearJobKept(w) == UNCHANGED job
ClearJob(w) == job' = Upd(job, w, None)
\* run_inner, lines 635-666: the run loop's POST and what follows it up to
\* the sleep: the 204 and body branches, the HttpServerError branch, the
\* HttpClientError branch, and the errors that leave the `with` block for
\* the two last branches (a transport failure is an IOError; json.loads of
\* a 200 body that is not JSON raises ValueError).
Post(w, resp) ==
    /\ Running
    /\ pc[w] = "post"
    /\ Charge(resp)
    /\ lastResp' = Upd(lastResp, w, resp)
    /\ trail' = Upd(trail, w, Note(trail[w],
                    IF path[w].kind = "acquire" THEN <<"acquire", 0>>
                    ELSE <<"result", path[w].id>>))
    /\ resultPosted' = IF path[w].kind # "acquire" /\ resp[1] # "ioerror"
                       THEN resultPosted \cup {path[w].id} ELSE resultPosted
    /\ idle' = Upd(idle, w, IdleAfter(w, resp))
    /\ CASE resp[1] = "204" ->
              /\ ClearJob(w)
              /\ Draw(w)
              /\ pc' = Upd(pc, w, "sleep_http")
              /\ UNCHANGED <<fatal_error, nextId>>
         [] resp[1] = "200" /\ resp[2] = "job" ->
              /\ job' = Upd(job, w, resp[3])
              /\ nextId' = nextId + 1
              /\ backoff' = Upd(backoff, w, start_backoff)
              /\ pc' = Upd(pc, w, "loop")
              /\ yielded' = Upd(yielded, w, 0)
              /\ UNCHANGED <<fatal_error, t, drawn>>
         [] resp[1] = "200" /\ resp[2] = "notjson" ->
              /\ pc' = Upd(pc, w, "exc")
              /\ UNCHANGED <<job, fatal_error, nextId, backoff, t, drawn, yielded>>
         [] resp[1] = "5xx" ->
              /\ ClearJob(w)
              /\ Draw(w)
              /\ pc' = Upd(pc, w, "sleep_http")
              /\ UNCHANGED <<fatal_error, nextId>>
         [] resp[1] = "4xx" ->
              /\ ClearJob(w)
              /\ Draw(w)
              /\ IF Classify4xx(resp[2]) = "backoff"
                 THEN /\ pc' = Upd(pc, w, "sleep_http")
                      /\ UNCHANGED fatal_error
                 ELSE \* the exception leaves run_inner: run(), lines 606-609
                      /\ pc' = Upd(pc, w, "finish")
                      /\ fatal_error' = Upd(fatal_error, w, Classify4xx(resp[2]))
              /\ UNCHANGED nextId
         [] resp[1] = "ioerror" ->
              /\ pc' = Upd(pc, w, "dead")
              /\ UNCHANGED <<job, fatal_error, nextId, backoff, t, drawn, yielded>>
    /\ UNCHANGED <<fixedBackoff, alive, sleepEv, finished, stockfish,
                   aliveLocal, todo, awaiting, path>>
    /\ UNCHANGED <<crashes, tail, cmds, abortTried, stopCalled, prev>>
    /\ wire' = Upd(wire, w, <<>>)
    /\ UNCHANGED abortResp
\* self.sleep.wait(t), lines 640, 651, 666, 677, 683: returns when the
\* event is set or after t seconds.
SleepWait(w) ==
    /\ Running
    /\ pc[w] \in {"sleep_http", "sleep_dead", "sleep_exc"}
    /\ pc' = Upd(pc, w, CASE pc[w] = "sleep_http" -> "loop"
                          [] pc[w] = "sleep_dead" -> "kill_dead"
                          [] pc[w] = "sleep_exc" -> "kill_exc")
    /\ t' = Upd(t, w, NoT)
    /\ trail' = Upd(trail, w, Note(trail[w], <<"sleep", 0>>))
    /\ UNCHANGED <<fixedBackoff, alive, sleepEv, finished, fatal_error, job,
                   stockfish, backoff, aliveLocal, todo, awaiting, path>>
    /\ UNCHANGED <<evars, cmds, lastResp, drawn, resultPosted, abortTried,
                   stopCalled, idle, prev, yielded>>
    /\ UNCHANGED wire
    /\ UNCHANGED abortResp
\* What becomes of the abort POST: the response is read ("ok"), http()
\* raises HttpClientError or HttpServerError ("status"), or the connection
\* fails ("ioerror").
AbortOutcomes == {"ok", "status", "ioerror"}
AbortFailed(o) == o \in {"status", "ioerror"}
\* abort_job, lines 688-701: nothing when no job is held; else POST
\* abort/<id>, with every exception caught and logged, and clear the job.
abort_job_silent(w) ==
    /\ job' = Upd(job, w, None)
    /\ UNCHANGED <<abortTried, trail, abortResp>>
abort_job_unless_failed(w) ==
    /\ abortTried' = IF job[w] # None THEN abortTried \cup {job[w].id}
                     ELSE abortTried
    /\ trail' = Upd(trail, w, IF job[w] # None
                              THEN Note(trail[w], <<"abort", job[w].id>>)
                              ELSE trail[w])
    /\ IF job[w] = None THEN UNCHANGED <<abortResp, job>>
       ELSE \E o \in AbortOutcomes :
               /\ abortResp' = Upd(abortResp, w, o)
               /\ job' = Upd(job, w, IF AbortFailed(o) THEN job[w] ELSE None)
abort_job(w) ==
    /\ IF job[w] = None THEN UNCHANGED abortResp
       ELSE \E o \in AbortOutcomes : abortResp' = Upd(abortResp, w, o)
    /\ abortTried' = IF job[w] # None THEN abortTried \cup {job[w].id}
                     ELSE abortTried
    /\ trail' = Upd(trail, w, IF job[w] # None
                              THEN Note(trail[w], <<"abort", job[w].id>>)
                              ELSE trail[w])
    /\ job' = Upd(job, w, None)

\* run_inner, lines 667-678: read alive, draw a backoff value when alive,
\* abort the job, then (when alive) sleep and kill.
DeadHandlerKeepsJob(w) ==
    /\ Running
    /\ pc[w] = "dead"
    /\ aliveLocal' = Upd(aliveLocal, w, alive[w])
    /\ IF alive[w] THEN Draw(w) ELSE UNCHANGED <<backoff, t, drawn, yielded>>
    /\ pc' = Upd(pc, w, IF alive[w] THEN "sleep_dead" ELSE "loop")
    /\ idle' = Upd(idle, w, BrokenIdle)
    /\ UNCHANGED <<fixedBackoff, alive, sleepEv, finished, fatal_error, job,
                   stockfish, todo, awaiting, path>>
    /\ UNCHANGED <<evars, cmds, trail, lastResp, resultPosted, abortTried,
                   stopCalled, prev>>
    /\ wire' = Upd(wire, w, <<>>)
    /\ UNCHANGED abortResp
DeadHandler(w) ==
    /\ Running
    /\ pc[w] = "dead"
    /\ aliveLocal' = Upd(aliveLocal, w, alive[w])
    /\ IF alive[w] THEN Draw(w) ELSE UNCHANGED <<backoff, t, drawn, yielded>>
    /\ abort_job(w)
    /\ pc' = Upd(pc, w, IF alive[w] THEN "sleep_dead" ELSE "loop")
    /\ idle' = Upd(idle, w, BrokenIdle)
    /\ UNCHANGED <<fixedBackoff, alive, sleepEv, finished, fatal_error,
                   stockfish, todo, awaiting, path>>
    /\ UNCHANGED <<evars, cmds, lastResp, resultPosted, stopCalled, prev>>
    /\ wire' = Upd(wire, w, <<>>)
\* run_inner, lines 679-682: any other exception.
ExcHandler(w) ==
    /\ Running
    /\ pc[w] = "exc"
    /\ job' = Upd(job, w, None)
    /\ Draw(w)
    /\ pc' = Upd(pc, w, "sleep_exc")
    /\ idle' = Upd(idle, w, BrokenIdle)
    /\ UNCHANGED <<fixedBackoff, alive, sleepEv, finished, fatal_error,
                   stockfish, aliveLocal, todo, awaiting, path>>
    /\ trail' = Upd(trail, w, Note(trail[w], <<"except", 0>>))
    /\ UNCHANGED <<evars, cmds, lastResp, resultPosted, abortTried, stopCalled, prev>>
    /\ wire' = Upd(wire, w, <<>>)
    /\ UNCHANGED abortResp
\* kill_process(self.stockfish), lines 678 and 686; an exception it raises
\* leaves run_inner and is recorded by run(), lines 608-609.
Kill(w) ==
    /\ Running
    /\ pc[w] \in {"kill_dead", "kill_exc"}
    /\ IF KillRaises(stockfish[w]) = "none"
       THEN /\ stockfish' = Upd(stockfish, w, KillResult(stockfish[w]))
            /\ pc' = Upd(pc, w, "loop")
            /\ trail' = Upd(trail, w, Note(trail[w], <<"kill", 0>>))
            /\ UNCHANGED fatal_error
       ELSE /\ fatal_error' = Upd(fatal_error, w, KillRaises(stockfish[w]))
            /\ pc' = Upd(pc, w, "finish")
            /\ UNCHANGED <<stockfish, trail>>
    /\ UNCHANGED <<fixedBackoff, alive, sleepEv, finished, job, backoff, t,
                   aliveLocal, todo, awaiting, path>>
    /\ UNCHANGED <<evars, cmds, lastResp, drawn, resultPosted, abortTried,
                   stopCalled, idle, prev, yielded>>
    /\ UNCHANGED wire
    /\ UNCHANGED abortResp
\* Worker.stop, lines 589-596, under status_lock.  When kill_process
\* raises, the lock is released and sleep.set() is not reached.
StopBody(w) ==
    /\ alive' = Upd(alive, w, FALSE)
    /\ stockfish' = Upd(stockfish, w,
           IF KillRaises(stockfish[w]) = "none" THEN KillResult(stockfish[w])
           ELSE stockfish[w])
    /\ sleepEv' = Upd(sleepEv, w,
           IF stockfish[w] = "reaped" THEN sleepEv[w] ELSE TRUE)
    /\ stopCalled' = Upd(stopCalled, w, TRUE)
StopRaises(w) == stockfish[w] = "reaped"

\* The engine process dies on its own (crash, out of memory, killed from
\* outside).
EngineDies(w) ==
    /\ Running
    /\ stockfish[w] = "running"
    /\ crashes < MaxCrashes
    /\ crashes' = crashes + 1
    /\ stockfish' = Upd(stockfish, w, "exited")
    /\ UNCHANGED <<fixedBackoff, pc, alive, sleepEv, finished, fatal_error, job,
                   backoff, t, aliveLocal, todo, awaiting, path>>
    /\ UNCHANGED <<nextId, budget, tail, hvars>>

\* kill_process, lines 372-378: os.killpg only sends SIGKILL; the process
\* goes some time later.
KillLands(w) ==
    /\ Running
    /\ stockfish[w] = "killed"
    /\ stockfish' = Upd(stockfish, w, "exited")
    /\ UNCHANGED <<fixedBackoff, pc, alive, sleepEv, finished, fatal_error, job,
                   backoff, t, aliveLocal, todo, awaiting, path>>
    /\ UNCHANGED <<evars, hvars>>

\* One step of worker w's thread.
WorkerStep(w) ==
    \/ LoopTest(w)
    \/ Poll(w)
    \/ SpawnOk(w)
    \/ SpawnFail(w)
    \/ EngineSend(w)
    \/ EngineReply(w)
    \/ EngineReplyBad(w)
    \/ EngineEOF(w)
    \/ Work(w)
    \/ \E resp \in Responses(nextId) : Post(w, resp)
    \/ SleepWait(w)
    \/ DeadHandler(w)
    \/ ExcHandler(w)
    \/ Kill(w)
    \/ Finish(w)

\* ----------------------------------------------- one worker, any stop()
\* Worker.__init__, lines 568-587, and the environment.
InitWorkers(b, tl, fx) ==
    /\ fixedBackoff \in fx
    /\ pc = [w \in Workers |-> "loop"]
    /\ alive = [w \in Workers |-> TRUE]
    /\ sleepEv = [w \in Workers |-> FALSE]
    /\ finished = [w \in Workers |-> FALSE]
    /\ fatal_error = [w \in Workers |-> "none"]
    /\ job = [w \in Workers |-> None]
    /\ stockfish = [w \in Workers |-> "none"]
    /\ backoff = [w \in Workers |-> start_backoff]
    /\ t = [w \in Workers |-> NoT]
    /\ aliveLocal = [w \in Workers |-> FALSE]
    /\ todo = [w \in Workers |-> <<>>]
    /\ awaiting = [w \in Workers |-> FALSE]
    /\ path = [w \in Workers |-> [kind |-> "acquire", id |-> 0]]
    /\ nextId = 1
    /\ crashes = 0
    /\ budget = b
    /\ tail = tl
    /\ spc = "wait"
    /\ supI = 1
    /\ ignore = FALSE
    /\ supExc = "none"
    /\ exitCode = -1
    /\ hnd = <<>>
    /\ delivered = 0
    /\ raisedN = 0
    /\ call = NoCall
    /\ cmds = [w \in Workers |-> <<>>]
    /\ trail = [w \in Workers |-> <<>>]
    /\ prev = [w \in Workers |-> <<>>]
    /\ lastResp = [w \in Workers |-> NoResp]
    /\ drawn = [w \in Workers |-> 0]
    /\ yielded = [w \in Workers |-> 0]
    /\ resultPosted = {}
    /\ abortTried = {}
    /\ stopCalled = [w \in Workers |-> FALSE]
    /\ idle = [w \in Workers |-> [ok |-> TRUE, n |-> 0, acq |-> 0, bases |-> <<>>]]
    /\ wire = [w \in Workers |-> <<>>]
    /\ abortResp = [w \in Workers |-> "none"]

vars == <<fixedBackoff, wvars, evars, hvars, svars>>

\* stop() called on the worker by whoever owns it, at any moment.
StopCall(w) ==
    /\ ~stopCalled[w]
    /\ StopBody(w)
    /\ UNCHANGED <<fixedBackoff, pc, finished, fatal_error, job, backoff, t,
                   aliveLocal, todo, awaiting, path>>
    /\ UNCHANGED <<evars, cmds, trail, lastResp, drawn, resultPosted, abortTried, idle, prev, yielded, wire, abortResp>>
    /\ UNCHANGED svars

InitWorker == InitWorkers(MaxHttp, TRUE, BOOLEAN)
NextWorker == \/ WorkerStep(FirstWorker)
              \/ StopCall(FirstWorker)
              \/ EngineDies(FirstWorker)
              \/ KillLands(FirstWorker)
SpecWorker == InitWorker /\ [][NextWorker]_vars

\* --------------------------------------- one worker and a talkative engine
\* Number of events of the dialogue with the given tag.
CountEv(tr, tag) == Cardinality({i \in 1..Len(tr) : tr[i][1] = tag})

\* Number of lines go() has parsed since it sent its go command.
RECURSIVE ParsedSinceGo(_)
ParsedSinceGo(tr) ==
    IF tr = <<>> \/ tr[Len(tr)][1] # "parse" THEN 0
    ELSE 1 + ParsedSinceGo(SubSeq(tr, 1, Len(tr) - 1))

\* isready(), lines 440-447: a line that is not readyok is read and
\* dropped (an `info string` silently, anything else with a warning).
NoiseKinds == {"info", "bestmove", "other"}
EngineNoiseKept(w) ==
    /\ Running
    /\ awaiting[w]
    /\ stockfish[w] = "running"
    /\ Head(todo[w])[1] = "isready"
    /\ CountEv(wire[w], "drop") + CountEv(wire[w], "parse") < MaxNoise
    /\ \E k \in NoiseKinds : wire' = Upd(wire, w, Append(wire[w], <<"parse", k>>))
    /\ UNCHANGED <<fixedBackoff, wvars, evars>>
    /\ UNCHANGED <<cmds, trail, prev, lastResp, drawn, yielded,
                   resultPosted, abortTried, stopCalled, idle, abortResp>>
EngineNoise(w) ==
    /\ Running
    /\ awaiting[w]
    /\ stockfish[w] = "running"
    /\ Head(todo[w])[1] = "isready"
    /\ CountEv(wire[w], "drop") < MaxNoise
    /\ \E k \in NoiseKinds : wire' = Upd(wire, w, Append(wire[w], <<"drop", k>>))
    /\ UNCHANGED <<fixedBackoff, wvars, evars>>
    /\ UNCHANGED <<cmds, trail, prev, lastResp, drawn, yielded,
                   resultPosted, abortTried, stopCalled, idle, abortResp>>

\* go(), lines 500-549: a well-formed info line is parsed into the
\* current search's info.
EngineInfo(w) ==
    /\ Running
    /\ awaiting[w]
    /\ stockfish[w] = "running"
    /\ Head(todo[w])[1] = "go"
    /\ ParsedSinceGo(wire[w]) < MaxInfo
    /\ wire' = Upd(wire, w, Append(wire[w], <<"parse", "info">>))
    /\ UNCHANGED <<fixedBackoff, wvars, evars>>
    /\ UNCHANGED <<cmds, trail, prev, lastResp, drawn, yielded,
                   resultPosted, abortTried, stopCalled, idle, abortResp>>

\* analysis(), lines 819-821, with send_analysis_progress, lines 789-799:
\* before a search, when the report interval has elapsed, POST the partial
\* result; whatever the outcome (a status other than 204 is logged, every
\* exception is caught) only last_progress_report may change.
ReportOutcomes == {"204", "200", "4xx", "5xx", "ioerror"}
ProgressReportDropsJob(w) ==
    /\ Running
    /\ pc[w] = "exec"
    /\ job[w].type = "analysis"
    /\ ~awaiting[w]
    /\ todo[w] # <<>>
    /\ Head(todo[w])[1] = "position"
    /\ CountEv(wire[w], "report") < MaxReports
    /\ \E o \in ReportOutcomes :
          /\ wire' = Upd(wire, w, Append(wire[w], <<"report", o>>))
          /\ job' = Upd(job, w, IF o = "204" THEN job[w] ELSE None)
    /\ UNCHANGED <<fixedBackoff, pc, alive, sleepEv, finished, fatal_error,
                   stockfish, backoff, t, aliveLocal, todo, awaiting, path, evars>>
    /\ UNCHANGED <<cmds, trail, prev, lastResp, drawn, yielded,
                   resultPosted, abortTried, stopCalled, idle, abortResp>>
ProgressReport(w) ==
    /\ Running
    /\ pc[w] = "exec"
    /\ job[w].type = "analysis"
    /\ ~awaiting[w]
    /\ todo[w] # <<>>
    /\ Head(todo[w])[1] = "position"
    /\ CountEv(wire[w], "report") < MaxReports
    /\ \E o \in ReportOutcomes : wire' = Upd(wire, w, Append(wire[w], <<"report", o>>))
    /\ UNCHANGED <<fixedBackoff, wvars, evars>>
    /\ UNCHANGED <<cmds, trail, prev, lastResp, drawn, yielded,
                   resultPosted, abortTried, stopCalled, idle, abortResp>>

InitDriver == InitWorkers(SysHttp, FALSE, {FALSE})
NextDriver == \/ WorkerStep(FirstWorker)
              \/ EngineDies(FirstWorker)
              \/ KillLands(FirstWorker)
              \/ EngineNoise(FirstWorker)
              \/ EngineInfo(FirstWorker)
              \/ ProgressReport(FirstWorker)
SpecDriver == InitDriver /\ [][NextDriver]_vars

\* ------------------------------------------------------ cmd_run and main
wrest == <<fixedBackoff, pc, finished, fatal_error, job, backoff, t, aliveLocal,
           todo, awaiting, path>>
hrest == <<cmds, trail, prev, lastResp, drawn, yielded, resultPosted, abortTried, idle, wire,
           abortResp>>

\* The main thread executes cmd_run's own code only while no signal handler
\* runs in it; the handlers' bookkeeping is touched by the handlers only.
MainRuns == hnd = <<>> /\ UNCHANGED <<hnd, delivered, raisedN, call>>

\* The poll of lines 1539-1542 without its test of fatal_error.
SupCheckBlind ==
    /\ spc = "wait"
    /\ MainRuns
    /\ spc' = IF supI = NumWorkers THEN "stats" ELSE "wait"
    /\ supI' = IF supI = NumWorkers THEN 1 ELSE supI + 1
    /\ UNCHANGED <<supExc, ignore, exitCode, alive, sleepEv, stockfish, stopCalled>>
    /\ UNCHANGED <<wrest, evars, hrest>>

\* cmd_run, lines 1539-1542: worker.finished.wait(STAT_INTERVAL / n) returns
\* (set or timed out), then `if worker.fatal_error: raise worker.fatal_error`.
\* UpdateRequired enters its except block; any other error has none and
\* goes to the finally block.
SupCheck ==
    /\ spc = "wait"
    /\ MainRuns
    /\ IF fatal_error[supI] # "none"
       THEN /\ supExc' = fatal_error[supI]
            /\ spc' = IF fatal_error[supI] = "UpdateRequired"
                      THEN "except_update" ELSE "fin_ignore"
            /\ UNCHANGED supI
       ELSE /\ spc' = IF supI = NumWorkers THEN "stats" ELSE "wait"
            /\ supI' = IF supI = NumWorkers THEN 1 ELSE supI + 1
            /\ UNCHANGED supExc
    /\ UNCHANGED <<ignore, exitCode, alive, sleepEv, stockfish, stopCalled>>
    /\ UNCHANGED <<wrest, evars, hrest>>

\* cmd_run, lines 1544-1552: the stat line, then the update check, which
\* raises UpdateRequired when it is drawn, an update is available and
\* auto_update is on.
SupStats(update) ==
    /\ spc = "stats"
    /\ MainRuns
    /\ IF update
       THEN supExc' = "UpdateRequired" /\ spc' = "except_update"
       ELSE UNCHANGED supExc /\ spc' = "wait"
    /\ UNCHANGED <<supI, ignore, exitCode, alive, sleepEv, stockfish, stopCalled>>
    /\ UNCHANGED <<wrest, evars, hrest>>

\* cmd_run, lines 1553-1563: the except blocks.  `except Shutdown` handles
\* the exception; `except UpdateRequired` logs and re-raises.
SupExcept ==
    /\ spc \in {"except_shutdown", "except_update"}
    /\ MainRuns
    /\ supExc' = IF spc = "except_shutdown" THEN "none" ELSE supExc
    /\ spc' = "fin_ignore"
    /\ UNCHANGED <<supI, ignore, exitCode, alive, sleepEv, stockfish, stopCalled>>
    /\ UNCHANGED <<wrest, evars, hrest>>

\* cmd_run, line 1565: handler.ignore = True.
SupIgnore ==
    /\ spc = "fin_ignore"
    /\ MainRuns
    /\ ignore' = TRUE
    /\ spc' = "fin_stop"
    /\ supI' = 1
    /\ UNCHANGED <<supExc, exitCode, alive, sleepEv, stockfish, stopCalled>>
    /\ UNCHANGED <<wrest, evars, hrest>>

\* cmd_run, lines 1568-1569: worker.stop() for each worker.  An exception
\* raised by stop() replaces the pending one and leaves the finally block.
SupStop ==
    /\ spc = "fin_stop"
    /\ MainRuns
    /\ StopBody(supI)
    /\ IF StopRaises(supI)
       THEN /\ supExc' = "OSError"
            /\ spc' = "unwind"
            /\ UNCHANGED supI
       ELSE /\ spc' = IF supI = NumWorkers THEN "fin_wait" ELSE "fin_stop"
            /\ supI' = IF supI = NumWorkers THEN 1 ELSE supI + 1
            /\ UNCHANGED supExc
    /\ UNCHANGED <<ignore, exitCode>>
    /\ UNCHANGED <<wrest, evars, hrest>>

\* cmd_run, lines 1572-1573: worker.finished.wait() without a timeout.
SupWait ==
    /\ spc = "fin_wait"
    /\ MainRuns
    /\ finished[supI]
    /\ spc' = IF supI = NumWorkers THEN "unwind" ELSE "fin_wait"
    /\ supI' = IF supI = NumWorkers THEN 1 ELSE supI + 1
    /\ UNCHANGED <<ignore, supExc, exitCode, alive, sleepEv, stockfish, stopCalled>>
    /\ UNCHANGED <<wrest, evars, hrest>>

\* main, lines 1886-1900: cmd_run returned 0 (sys.exit(0)) or raised.
ExitCodeOf(e) == CASE e = "none" -> 0
                   [] e = "Shutdown" -> 0
                   [] e = "UpdateRequired" -> 70
                   [] OTHER -> 1

SupExit ==
    /\ spc = "unwind"
    /\ MainRuns
    /\ exitCode' = ExitCodeOf(supExc)
    /\ spc' = "exited"
    /\ UNCHANGED <<supI, ignore, supExc, alive, sleepEv, stockfish, stopCalled>>
    /\ UNCHANGED <<wrest, evars, hrest>>

\* SignalHandler.handle_term / handle_usr1, lines 336-344, run in the
\* main thread between two of its steps: the exception is raised at the
\* point the main thread is at.  Inside the try block it reaches the
\* matching except block; inside an except block it replaces the
\* exception being handled and the finally block runs; inside the finally
\* block (before line 1565 has run) it leaves the block.
RaisedBy(sig) == IF sig = "USR1" THEN "UpdateRequired" ELSE "Shutdown"

Signal(sig) ==
    /\ spc \in {"wait", "stats", "except_update", "fin_ignore"}
    /\ MainRuns
    /\ ~ignore
    /\ ignore' = TRUE
    /\ supExc' = RaisedBy(sig)
    /\ spc' = CASE spc \in {"wait", "stats"} ->
                     IF sig = "USR1" THEN "except_update" ELSE "except_shutdown"
                [] spc = "except_update" -> "fin_ignore"
                [] spc = "fin_ignore" -> "unwind"
    /\ UNCHANGED <<supI, exitCode, alive, sleepEv, stockfish, stopCalled>>
    /\ UNCHANGED <<wrest, evars, hrest>>

Signals == {"TERM", "INT", "USR1"}

\* ------------------------------------------------------- the whole process
Init == InitWorkers(SysHttp, FALSE, {FALSE})
Next == \/ \E w \in Workers : WorkerStep(w)
        \/ \E w \in Workers : KillLands(w)
        \/ SupCheck
        \/ \E u \in BOOLEAN : SupStats(u)
        \/ SupExcept
        \/ SupIgnore
        \/ SupStop
        \/ SupWait
        \/ SupExit
        \/ \E sig \in Signals : Signal(sig)
Spec == Init /\ [][Next]_vars

\* ------------------------------- the signal handlers, statement by statement
\* Python runs a signal's handler in the main thread, between two bytecodes
\* of whatever the main thread executes, a running handler included: a
\* handler can be entered while another one is between its test and its
\* assignment.  hnd holds the handlers that have passed the test
\* `if not self.ignore` (lines 337, 342) and what each executes next.
HandlerFrames == [sig : Signals, at : {"set", "raise"}]

\* Where an exception raised in the main thread at position `at` takes it:
\* from the try block to the matching except block (none for other
\* exceptions), from an except block to the finally block, from the finally
\* block out of cmd_run.
Lands(at, exc) ==
    CASE at \in {"wait", "stats"} ->
             (CASE exc = "Shutdown" -> "except_shutdown"
                [] exc = "UpdateRequired" -> "except_update"
                [] OTHER -> "fin_ignore")
      [] at \in {"except_shutdown", "except_update"} -> "fin_ignore"
      [] at \in {"fin_ignore", "fin_stop", "fin_wait"} -> "unwind"
      [] OTHER -> at

\* A signal is delivered and its handler runs its test, lines 337 and 342:
\* with ignore set the handler returns at once.
SigDeliver(sig) ==
    /\ exitCode = -1
    /\ delivered < MaxSignals
    /\ delivered' = delivered + 1
    /\ hnd' = IF ignore THEN hnd ELSE Append(hnd, [sig |-> sig, at |-> "set"])
    /\ UNCHANGED <<spc, supI, ignore, supExc, exitCode, raisedN, call>>
    /\ UNCHANGED <<fixedBackoff, wvars, evars, hvars>>

\* Lines 338 and 343: self.ignore = True.
HndSetForgets ==
    /\ exitCode = -1
    /\ hnd # <<>>
    /\ hnd[Len(hnd)].at = "set"
    /\ hnd' = [hnd EXCEPT ![Len(hnd)].at = "raise"]
    /\ UNCHANGED <<spc, supI, ignore, supExc, exitCode, delivered, raisedN, call>>
    /\ UNCHANGED <<fixedBackoff, wvars, evars, hvars>>
HndSet ==
    /\ exitCode = -1
    /\ hnd # <<>>
    /\ hnd[Len(hnd)].at = "set"
    /\ ignore' = TRUE
    /\ hnd' = [hnd EXCEPT ![Len(hnd)].at = "raise"]
    /\ UNCHANGED <<spc, supI, supExc, exitCode, delivered, raisedN, call>>
    /\ UNCHANGED <<fixedBackoff, wvars, evars, hvars>>

\* Lines 339 and 344: raise Shutdown() / raise UpdateRequired().  The
\* exception leaves the handler and every handler it interrupted, and
\* reaches cmd_run at the point the main thread was at.
HndRaise ==
    /\ exitCode = -1
    /\ hnd # <<>>
    /\ hnd[Len(hnd)].at = "raise"
    /\ raisedN' = raisedN + 1
    /\ hnd' = <<>>
    /\ supExc' = RaisedBy(hnd[Len(hnd)].sig)
    /\ spc' = Lands(spc, RaisedBy(hnd[Len(hnd)].sig))
    /\ UNCHANGED <<supI, ignore, exitCode, delivered, call>>
    /\ UNCHANGED <<fixedBackoff, wvars, evars, hvars>>

InitSignals == InitWorkers(SysHttp, FALSE, {FALSE})
NextSignals == \/ WorkerStep(FirstWorker)
               \/ KillLands(FirstWorker)
               \/ SupCheck
               \/ \E u \in BOOLEAN : SupStats(u)
               \/ SupExcept
               \/ SupIgnore
               \/ SupStop
               \/ SupWait
               \/ SupExit
               \/ \E sig \in Signals : SigDeliver(sig)
               \/ HndSet
               \/ HndRaise
SpecSignals == InitSignals /\ [][NextSignals]_vars

\* ------------------------------------------ the backoff generator alone
\* next() on one generator, random.random() ranging over its whole grid.
BackoffNext ==
    /\ yielded[FirstWorker] < MaxYield
    /\ DrawFrom(FirstWorker, RandGrid)
    /\ UNCHANGED <<fixedBackoff, pc, alive, sleepEv, finished, fatal_error, job,
                   stockfish, aliveLocal, todo, awaiting, path>>
    /\ UNCHANGED <<evars, svars, cmds, trail, prev, lastResp, resultPosted,
                   abortTried, stopCalled, idle, wire, abortResp>>

SpecBackoff == InitWorker /\ [][BackoffNext]_vars

\* ------------------------------------- one worker, fair scheduling
\* The worker's thread keeps running, HTTP calls return, sleeps end and
\* reads on a dead engine return EOF, and an engine that was sent SIGKILL
\* goes.  Nothing is assumed of a live engine's answers (EngineReply,
\* EngineReplyBad), of stop() being called or of the engine dying by itself.
FairWorker(w) ==
    /\ WF_vars(LoopTest(w))
    /\ WF_vars(Poll(w))
    /\ WF_vars(SpawnOk(w) \/ SpawnFail(w))
    /\ WF_vars(EngineSend(w))
    /\ WF_vars(EngineEOF(w))
    /\ WF_vars(Work(w))
    /\ WF_vars(\E resp \in Responses(nextId) : Post(w, resp))
    /\ WF_vars(SleepWait(w))
    /\ WF_vars(DeadHandler(w))
    /\ WF_vars(ExcHandler(w))
    /\ WF_vars(Kill(w))
    /\ WF_vars(KillLands(w))
    /\ WF_vars(Finish(w))

SpecWorkerFair == SpecWorker /\ FairWorker(FirstWorker)

\* ------------------------------------------------ the helper functions
\* One call of a helper function, on any input.
\* A logging call with the filter installed for `keyword`: the record is
\* filtered, then formatted.
LogCall(keyword, msg, args) ==
    /\ call = NoCall
    /\ call' = [fn |-> "filter", keyword |-> keyword, msg |-> msg, args |-> args,
                out |-> LET r == filter(keyword, [msg |-> PyStr(msg), args |-> args])
                        IN  Format(r.msg.s, r.args)]
    /\ UNCHANGED <<fixedBackoff, wvars, evars, hvars>>
    /\ UNCHANGED <<spc, supI, ignore, supExc, exitCode, hnd, delivered, raisedN>>

VariantCall(variant) ==
    /\ call = NoCall
    /\ call' = [fn |-> "set_variant_options", variant |-> variant,
                sent |-> set_variant_options(variant)]
    /\ UNCHANGED <<fixedBackoff, wvars, evars, hvars>>
    /\ UNCHANGED <<spc, supI, ignore, supExc, exitCode, hnd, delivered, raisedN>>

\* Worker.bestmove, lines 765-773: the Skill Level option and the go line
\* of a move job at level lvl with a clock or none.
BestmoveCall(lvl, threads, clock) ==
    /\ call = NoCall
    /\ \E skill \in SkillLevels(lvl), movetime \in Movetimes(lvl, threads) :
          call' = [fn |-> "bestmove", level |-> lvl, threads |-> threads,
                   clock |-> clock, skill |-> skill,
                   line |-> GoLine(<<movetime>>, clock, <<LVL_DEPTHS[lvl]>>, <<>>)]
    /\ UNCHANGED <<fixedBackoff, wvars, evars, hvars>>
    /\ UNCHANGED <<spc, supI, ignore, supExc, exitCode, hnd, delivered, raisedN>>

\* go, lines 461-486, with any of its optional arguments given.
GoCall(movetime, clock, depth, nodes) ==
    /\ call = NoCall
    /\ call' = [fn |-> "go", movetime |-> movetime, clock |-> clock,
                depth |-> depth, nodes |-> nodes,
                line |-> GoLine(movetime, clock, depth, nodes)]
    /\ UNCHANGED <<fixedBackoff, wvars, evars, hvars>>
    /\ UNCHANGED <<spc, supI, ignore, supExc, exitCode, hnd, delivered, raisedN>>

\* go, lines 494-499: the search's bestmove line is read.
GoBestmove(args) ==
    /\ call = NoCall
    /\ call' = [fn |-> "go_bestmove", args |-> args, out |-> ParseBestmove(args)]
    /\ UNCHANGED <<fixedBackoff, wvars, evars, hvars>>
    /\ UNCHANGED <<spc, supI, ignore, supExc, exitCode, hnd, delivered, raisedN>>

\* Worker.analysis, lines 830-835, on the result of one ply's search.
ValidateCall(part) ==
    /\ call = NoCall
    /\ call' = [fn |-> "validate", part |-> part, out |-> PostValidate(part)]
    /\ UNCHANGED <<fixedBackoff, wvars, evars, hvars>>
    /\ UNCHANGED <<spc, supI, ignore, supExc, exitCode, hnd, delivered, raisedN>>

\* cmd_run, lines 1490-1523: the workers it creates, each with its thread
\* count and its memory.
StartCall(cores, threads, memory) ==
    /\ call = NoCall
    /\ LET instances == Instances(cores, threads)
           buckets == Buckets(cores, instances)
       IN  call' = [fn |-> "cmd_run", cores |-> cores, threads |-> threads,
                    memory |-> memory,
                    workers |-> [j \in 1..instances |->
                                    [threads |-> buckets[j],
                                     memory |-> memory \div instances]]]
    /\ UNCHANGED <<fixedBackoff, wvars, evars, hvars>>
    /\ UNCHANGED <<spc, supI, ignore, supExc, exitCode, hnd, delivered, raisedN>>

NextFuncs ==
    \/ \E keyword \in Texts(MaxKeyLen), msg \in Templates :
         \E args \in [1..Cardinality(Placeholders(msg)) -> PyValues] :
            LogCall(keyword, msg, args)
    \/ \E variant \in Variants : VariantCall(variant)
    \/ \E lvl \in Levels, threads \in 1..MaxThreads, clock \in Opt(Clocks) :
         BestmoveCall(lvl, threads, clock)
    \/ \E movetime \in Opt({0, 4000}), clock \in Opt(Clocks),
          depth \in Opt({22}), nodes \in Opt({3500000}) :
         GoCall(movetime, clock, depth, nodes)
    \/ \E cores \in 1..MaxCores :
         \E threads \in 1..cores :
            \E memory \in Memories(cores \div threads) :
               StartCall(cores, threads, memory)
    \/ \E args \in BestmoveArgs : GoBestmove(args)
    \/ \E part \in Parts : ValidateCall(part)
InitFuncs == InitWorkers(SysHttp, FALSE, {FALSE})
SpecFuncs == InitFuncs /\ [][NextFuncs]_vars

\* ----------------------------------------- go(): the info lines of a search
\* go, lines 487-488: info = {} and the read loop starts.
SearchStart ==
    /\ call = NoCall
    /\ call' = [fn |-> "parse",
                c |-> [info |-> EmptyInfo, cur |-> "None", sk |-> "None",
                       sv |-> <<>>, sb |-> FALSE, inLine |-> FALSE,
                       status |-> "ok", lines |-> 0, tokens |-> 0],
                h |-> [line |-> <<>>, before |-> <<>>,
                       given |-> [k \in IntParams |-> <<>>],
                       since |-> [k \in IntParams |-> <<>>],
                       run |-> <<>>]]
    /\ UNCHANGED <<fixedBackoff, wvars, evars, hvars>>
    /\ UNCHANGED <<spc, supI, ignore, supExc, exitCode, hnd, delivered, raisedN>>

\* Lines 491 and 499-504: an info line has been read.
InfoStart ==
    /\ call.fn = "parse"
    /\ call.c.status = "ok"
    /\ ~call.c.inLine
    /\ call.c.lines < MaxLines
    /\ call' = [call EXCEPT !.c = [LineStart(@) EXCEPT !.inLine = TRUE,
                                                        !.lines = @ + 1],
                            !.h.line = <<>>,
                            !.h.before = call.c.info.score]
    /\ UNCHANGED <<fixedBackoff, wvars, evars, hvars>>
    /\ UNCHANGED <<spc, supI, ignore, supExc, exitCode, hnd, delivered, raisedN>>

\* Lines 505-546: the next token of the line.
Token(tok) ==
    /\ call.fn = "parse"
    /\ call.c.status = "ok"
    /\ call.c.inLine
    /\ call.c.tokens < MaxTokens
    /\ call' = [call EXCEPT !.c = [ParseToken(@, tok) EXCEPT !.tokens = @ + 1],
                            !.h = Observe(@, tok)]
    /\ UNCHANGED <<fixedBackoff, wvars, evars, hvars>>
    /\ UNCHANGED <<spc, supI, ignore, supExc, exitCode, hnd, delivered, raisedN>>

\* Lines 548-549: the line is over.
EndLine ==
    /\ call.fn = "parse"
    /\ call.c.status = "ok"
    /\ call.c.inLine
    /\ call' = [call EXCEPT !.c = [LineEnd(@) EXCEPT !.inLine = FALSE]]
    /\ UNCHANGED <<fixedBackoff, wvars, evars, hvars>>
    /\ UNCHANGED <<spc, supI, ignore, supExc, exitCode, hnd, delivered, raisedN>>

NextInfo ==
    \/ SearchStart
    \/ InfoStart
    \/ \E tok \in Tokens : Token(tok)
    \/ EndLine
SpecInfo == InitFuncs /\ [][NextInfo]_vars

\* ------------------------------------ Worker.analysis: the loop over plies
\* Lines 802-806: moves is split, the array of results is allocated and the
\* clock is read into start and last_progress_report.
AnalysisStart(m) ==
    /\ call = NoCall
    /\ call' = [fn |-> "analysis", len |-> SplitLen(m), ply |-> SplitLen(m),
                at |-> "top", now |-> 0, start |-> 0, last |-> 0,
                analysis |-> NewAnalysis(SplitLen(m)), log |-> <<>>]
    /\ UNCHANGED <<fixedBackoff, wvars, evars, hvars>>
    /\ UNCHANGED <<spc, supI, ignore, supExc, exitCode, hnd, delivered, raisedN>>

\* time.time(): the clock moves on while the engine is prepared (lines
\* 808-814) and while it searches (line 827).
Tick ==
    /\ call.fn = "analysis"
    /\ call.at \in {"top", "search"}
    /\ call.now < MaxTime
    /\ call' = [call EXCEPT !.now = @ + 1]
    /\ UNCHANGED <<fixedBackoff, wvars, evars, hvars>>
    /\ UNCHANGED <<spc, supI, ignore, supExc, exitCode, hnd, delivered, raisedN>>

\* Line 819 is false: no report before this ply's search.
ReportSkip ==
    /\ call.fn = "analysis"
    /\ call.at = "top"
    /\ ~ReportDue(call.last, call.now)
    /\ call' = [call EXCEPT !.at = "search",
                            !.log = Append(@, [ply |-> call.ply, at |-> call.now,
                                               sent |-> FALSE, ok |-> FALSE,
                                               done |-> call.now,
                                               body |-> call.analysis])]
    /\ UNCHANGED <<fixedBackoff, wvars, evars, hvars>>
    /\ UNCHANGED <<spc, supI, ignore, supExc, exitCode, hnd, delivered, raisedN>>

\* Lines 819-821: the report is due; it is POSTed with outcome o after d
\* seconds, and the clock is read again at line 821 when it was delivered.
ReportSend(o, d) ==
    /\ call.fn = "analysis"
    /\ call.at = "top"
    /\ ReportDue(call.last, call.now)
    /\ call.now + d <= MaxTime
    /\ call' = [call EXCEPT !.at = "search",
                            !.now = @ + d,
                            !.last = IF Delivered(o) THEN call.now + d ELSE @,
                            !.log = Append(@, [ply |-> call.ply, at |-> call.now,
                                               sent |-> TRUE, ok |-> Delivered(o),
                                               done |-> call.now + d,
                                               body |-> call.analysis])]
    /\ UNCHANGED <<fixedBackoff, wvars, evars, hvars>>
    /\ UNCHANGED <<spc, supI, ignore, supExc, exitCode, hnd, delivered, raisedN>>

\* Lines 827-840: go() returns part, which is validated and stored; the loop
\* goes on to the next ply or ends. An exception of line 830 leaves analysis().
SearchStep(part) ==
    /\ call.fn = "analysis"
    /\ call.at = "search"
    /\ LET v == PostValidate(part)
       IN  call' = IF v.raised # "none" THEN [call EXCEPT !.at = "raised"]
                   ELSE [call EXCEPT
                           !.analysis = StoreAt(@, call.ply, v.part),
                           !.ply = IF call.ply = 0 THEN 0 ELSE @ - 1,
                           !.at = IF call.ply = 0 THEN "done" ELSE "top"]
    /\ UNCHANGED <<fixedBackoff, wvars, evars, hvars>>
    /\ UNCHANGED <<spc, supI, ignore, supExc, exitCode, hnd, delivered, raisedN>>

NextAnalysis ==
    \/ \E m \in 0..MaxPlies : AnalysisStart(m)
    \/ Tick
    \/ ReportSkip
    \/ \E o \in ReportOutcomes, d \in PostTimes : ReportSend(o, d)
    \/ \E part \in SearchResults : SearchStep(part)
SpecAnalysis == InitFuncs /\ [][NextAnalysis]_vars

\* --------------------------------------- Worker.bestmove, step by step
\* Lines 756-768: the level, the variant and the clock are taken from the
\* job; the worker has counted some positions before.
MoveStart(lvl, threads, clock, variant, positions) ==
    /\ call = NoCall
    /\ \E skill \in SkillLevels(lvl), movetime \in Movetimes(lvl, threads) :
          call' = [fn |-> "move", level |-> lvl, threads |-> threads,
                   clock |-> clock, variant |-> variant, skill |-> skill,
                   line |-> GoLine(<<movetime>>, clock, <<LVL_DEPTHS[lvl]>>, <<>>),
                   step |-> 1, at |-> "run", sent |-> <<>>, readies |-> 0,
                   heard |-> <<>>,
                   info |-> <<>>, before |-> positions, positions |-> positions,
                   result |-> <<>>]
    /\ UNCHANGED <<fixedBackoff, wvars, evars, hvars>>
    /\ UNCHANGED <<spc, supI, ignore, supExc, exitCode, hnd, delivered, raisedN>>

\* send(): the next line of the flow is written to the engine.
MoveSend ==
    /\ call.fn = "move"
    /\ call.at = "run"
    /\ bestmoveScript[call.step] \notin {"readyok", "bestmove", "return"}
    /\ call' = [call EXCEPT !.step = @ + 1,
                            !.sent = Append(@, MoveLine(call,
                                                bestmoveScript[call.step]))]
    /\ UNCHANGED <<fixedBackoff, wvars, evars, hvars>>
    /\ UNCHANGED <<spc, supI, ignore, supExc, exitCode, hnd, delivered, raisedN>>

\* isready, lines 439-441: readyok is read.
MoveReadyok ==
    /\ call.fn = "move"
    /\ call.at = "run"
    /\ bestmoveScript[call.step] = "readyok"
    /\ call' = [call EXCEPT !.step = @ + 1, !.readies = @ + 1]
    /\ UNCHANGED <<fixedBackoff, wvars, evars, hvars>>
    /\ UNCHANGED <<spc, supI, ignore, supExc, exitCode, hnd, delivered, raisedN>>

\* go, lines 491-499: the bestmove line is read.
MoveBestmove(args) ==
    /\ call.fn = "move"
    /\ call.at = "run"
    /\ bestmoveScript[call.step] = "bestmove"
    /\ LET out == ParseBestmove(args)
       IN  call' = IF out.raised # "none"
                   THEN [call EXCEPT !.heard = <<args>>, !.at = "raised"]
                   ELSE [call EXCEPT !.heard = <<args>>, !.step = @ + 1,
                                     !.info = <<out.bestmove>>]
    /\ UNCHANGED <<fixedBackoff, wvars, evars, hvars>>
    /\ UNCHANGED <<spc, supI, ignore, supExc, exitCode, hnd, delivered, raisedN>>

\* recv, lines 389-391: the engine has gone and the read raises EOFError.
MoveEOF ==
    /\ call.fn = "move"
    /\ call.at = "run"
    /\ bestmoveScript[call.step] \in {"readyok", "bestmove"}
    /\ call' = [call EXCEPT !.at = "raised"]
    /\ UNCHANGED <<fixedBackoff, wvars, evars, hvars>>
    /\ UNCHANGED <<spc, supI, ignore, supExc, exitCode, hnd, delivered, raisedN>>

\* Lines 780-787: the counter and the result.
MoveReturn ==
    /\ call.fn = "move"
    /\ call.at = "run"
    /\ bestmoveScript[call.step] = "return"
    /\ call' = [call EXCEPT !.at = "returned",
                            !.positions = @ + 1,
                            !.result = <<[bestmove |-> call.info[1]]>>]
    /\ UNCHANGED <<fixedBackoff, wvars, evars, hvars>>
    /\ UNCHANGED <<spc, supI, ignore, supExc, exitCode, hnd, delivered, raisedN>>

NextMove ==
    \/ \E lvl \in Levels, threads \in 1..MaxThreads, clock \in Opt(Clocks),
          variant \in {Word(b) : b \in VariantWords}, positions \in {0, 1} :
         MoveStart(lvl, threads, clock, variant, positions)
    \/ MoveSend
    \/ MoveReadyok
    \/ \E args \in BestmoveArgs : MoveBestmove(args)
    \/ MoveEOF
    \/ MoveReturn
SpecMove == InitFuncs /\ [][NextMove]_vars

\* =================================================================== claims

\* C1: in a graceful shutdown (stop() called on every worker), once every
\* worker has set finished no worker holds a job, and every job a worker
\* received had its result POSTed or its abort attempted.
C1_NoJobHeldWhenAllFinished ==
    (\A w \in Workers : stopCalled[w] /\ finished[w])
        => /\ \A w \in Workers : job[w] = None
           /\ \A i \in 1..(nextId - 1) : i \in resultPosted \cup abortTried

\* C2: after stop() has been called on a worker, the worker eventually sets
\* finished, whatever point of its iteration it was at, given only that HTTP
\* calls return and reads on a killed engine return EOF.
C2_StopLeadsToFinished ==
    stopCalled[FirstWorker] ~> finished[FirstWorker]

\* C3: whenever an error raised while a job is executed (the engine died, or
\* any other exception; the iteration has not POSTed yet) makes the worker
\* give up the job, POST abort/<id> is attempted for that job before the
\* slot is cleared.
C3_AbortBeforeClear ==
    [][\A w \in Workers :
          (/\ pc[w] \in {"dead", "exc"}
           /\ lastResp[w] = NoResp
           /\ job[w] # None
           /\ job[w].id \notin resultPosted
           /\ job'[w] = None)
          => job[w].id \in abortTried']_vars

\* C4: for a worker that is alive, a 5xx, a 4xx without the upgrade message
\* (whatever its body), a dead-engine error (a failed spawn included) or any
\* other exception never ends the run loop: the only error fatal_error ever
\* holds is UpdateRequired, and a worker nobody stopped finishes only
\* with it.
C4_OnlyUpgradeEndsLoop ==
    \A w \in Workers :
        /\ fatal_error[w] \in {"none", "UpdateRequired"}
        /\ (pc[w] \in {"finish", "done"} /\ ~stopCalled[w])
               => fatal_error[w] = "UpdateRequired"

\* C5: an EOF read during a search while a worker holds job J raises the
\* dead-engine error; the handler attempts POST abort/J and clears the slot,
\* an alive worker then sleeps a backoff value and kills the handle; the
\* next iteration spawns a new engine and its POST is an acquire.
EofTail(J) == << <<"eof", J>>, <<"abort", J>>, <<"sleep", 0>>, <<"kill", 0>> >>
HasEof(tr) == \E i \in 1..Len(tr) : tr[i][1] = "eof"
FirstPost(tr) == CHOOSE i \in 1..Len(tr) :
                    /\ tr[i][1] \in {"acquire", "result"}
                    /\ \A k \in 1..(i - 1) : tr[k][1] \notin {"acquire", "result"}
C5_EofAbortsAndRespawns ==
    \A w \in Workers :
        /\ \A i \in 1..Len(trail[w]) :
              trail[w][i][1] = "eof" =>
                  LET J == trail[w][i][2]
                      n == Len(trail[w]) - i + 1
                  IN  /\ J # 0
                      /\ n <= 4
                      /\ SubSeq(trail[w], i, Len(trail[w])) = SubSeq(EofTail(J), 1, n)
                      /\ n = 1 => pc[w] = "dead" /\ job[w].id = J
                      /\ n >= 2 => job[w] = None /\ J \in abortTried
                      /\ (n = 2 /\ aliveLocal[w]) => pc[w] = "sleep_dead" /\ t[w] # NoT
                      /\ (n = 2 /\ ~aliveLocal[w]) => pc[w] = "loop"
                      /\ n = 3 => pc[w] = "kill_dead"
                      /\ n = 4 => pc[w] = "loop" /\ stockfish[w] # "running"
        /\ (HasEof(prev[w]) /\ pc[w] \notin {"finish", "done"}) =>
              /\ job[w] = None \/ lastResp[w][1] = "200"
              /\ trail[w] # <<>> => trail[w][1][1] \in {"spawn", "dead"}
              /\ \A i \in 1..Len(trail[w]) : trail[w][i][1] # "result"
              /\ (\E i \in 1..Len(trail[w]) : trail[w][i][1] = "acquire") =>
                    /\ trail[w][1] = <<"spawn", 0>>
                    /\ trail[w][FirstPost(trail[w])] = <<"acquire", 0>>

C5_Witness ==
    /\ alive[FirstWorker]
    /\ HasEof(prev[FirstWorker])
    /\ prev[FirstWorker][Len(prev[FirstWorker])] = <<"kill", 0>>
    /\ trail[FirstWorker] = << <<"spawn", 0>>, <<"acquire", 0>> >>

\* C6: on a 4xx response the worker raises UpdateRequired exactly when the
\* body is JSON whose `error` is a string containing "Please restart
\* fishnet to upgrade."
C6_UpgradeIffErrorString ==
    \A w \in Workers :
        lastResp[w][1] = "4xx" =>
            (fatal_error[w] = "UpdateRequired" <=> lastResp[w][2] = "upgrade")

\* C7: whenever a worker's run loop has ended with UpdateRequired, the
\* process exits with status 70, whatever signals arrived.
C7_UpgradeExits70 ==
    (exitCode # -1 /\ \E w \in Workers : fatal_error[w] = "UpdateRequired")
        => exitCode = 70

\* C8: a run-loop POST answered with a job makes that job the current job
\* and replaces the generator by a fresh one (the next base is 1, nothing is
\* drawn); a 204 clears the job, draws exactly one value, which is slept,
\* and in exponential mode advances b by one, capped at MAX_BACKOFF.
C8_PostSuccess ==
    [][\A w \in Workers :
          (pc[w] = "post" /\ pc'[w] # "post") =>
              /\ (lastResp'[w][1] = "200" /\ lastResp'[w][2] = "job") =>
                    /\ lastResp'[w][3] \in Jobs
                    /\ job'[w] = lastResp'[w][3]
                    /\ backoff'[w] = [b |-> 1, started |-> FALSE]
                    /\ NextBase(backoff'[w]) = 1
                    /\ drawn'[w] = drawn[w]
                    /\ pc'[w] = "loop"
              /\ lastResp'[w][1] = "204" =>
                    /\ job'[w] = None
                    /\ drawn'[w] = drawn[w] + 1
                    /\ pc'[w] = "sleep_http"
                    /\ t'[w] # NoT
                    /\ backoff'[w].started
                    /\ ~fixedBackoff =>
                          /\ backoff'[w].b = Min(yielded[w] + 1, MAX_BACKOFF)
                          /\ backoff'[w].b = IF backoff[w].started
                                             THEN Min(backoff[w].b + 1, MAX_BACKOFF)
                                             ELSE 1]_vars

C8_Witness ==
    /\ prev[FirstWorker] = << <<"spawn", 0>>, <<"acquire", 0>>, <<"sleep", 0>> >>
    /\ lastResp[FirstWorker][1] = "200"
    /\ job[FirstWorker] = lastResp[FirstWorker][3]
    /\ job[FirstWorker] \in Jobs
    /\ backoff[FirstWorker] = [b |-> 1, started |-> FALSE]

\* C9 as stated: the k-th exponential value since the reset lies in the
\* half-open interval [0.5 * min(k, 30), min(k, 30)); a fixed-mode value
\* lies in [0, 3).
C9_HalfOpenRange ==
    LET k == yielded[FirstWorker]
        v == t[FirstWorker]
        b == Min(k, MAX_BACKOFF)
    IN  k >= 1 =>
            IF fixedBackoff THEN 0 <= v /\ v < MAX_FIXED_BACKOFF * Unit
            ELSE b * Unit <= 2 * v /\ v < b * Unit

\* C9 amended: the k-th exponential value since the reset has base
\* b = min(k, 30) (b starts at 1, grows by 1, never exceeds 30) and lies in
\* the closed interval [0.5 * b, b]; a fixed-mode value lies in [0, 3).
C9_ClosedRange ==
    LET k == yielded[FirstWorker]
        v == t[FirstWorker]
        b == backoff[FirstWorker].b
    IN  k >= 1 =>
            IF fixedBackoff THEN 0 <= v /\ v < MAX_FIXED_BACKOFF * Unit
            ELSE /\ b = Min(k, MAX_BACKOFF)
                 /\ b <= MAX_BACKOFF
                 /\ b * Unit <= 2 * v
                 /\ v <= b * Unit

C9_Witness ==
    /\ ~fixedBackoff
    /\ yielded[FirstWorker] > MAX_BACKOFF
    /\ backoff[FirstWorker].b = MAX_BACKOFF
    /\ t[FirstWorker] = MAX_BACKOFF * Unit

\* C10: while a worker holds no job and its engine stays alive, after n
\* consecutive 204 responses from a fresh generator it has made exactly n
\* POSTs, all to acquire, the values drawn had bases 1..n capped at 30, and
\* the engine has received the commands of its start and no other.
C10_IdleLoop ==
    \A w \in Workers :
        idle[w].ok =>
            /\ idle[w].acq = idle[w].n
            /\ Len(idle[w].bases) = idle[w].n
            /\ yielded[w] = Min(idle[w].n, MaxYield)
            /\ ~fixedBackoff =>
                  \A i \in 1..idle[w].n : idle[w].bases[i] = Min(i, MAX_BACKOFF)
            /\ Len(cmds[w]) <= 4
            /\ cmds[w] = SubSeq(<<"uci", "setoption threads", "setoption hash",
                                  "isready">>, 1, Len(cmds[w]))
            /\ idle[w].n >= 1 => Len(cmds[w]) = 4

C10_Witness ==
    /\ ~fixedBackoff
    /\ idle[FirstWorker].ok
    /\ idle[FirstWorker].n > MAX_BACKOFF

\* ------------------------------------------------ the engine dialogue
IsCore(e) == e[1] \in {"send", "read"}
Core(tr) == SelectSeq(tr, IsCore)
SearchWire == << <<"send", "position">>, <<"send", "isready">>, <<"read", "readyok">>,
                 <<"send", "go">>, <<"read", "bestmove">>,
                 <<"send", "isready">>, <<"read", "readyok">> >>
\* The last line written or terminal line read before event i.
PrevCore(tr, i) == LET c == Core(SubSeq(tr, 1, i - 1))
                   IN  IF c = <<>> THEN <<"none", "">> ELSE c[Len(c)]
JobDone(w) == pc[w] = "post" /\ path[w].kind \in {"analysis", "move"}

\* C11: after uci, isready or go the next thing the driver does on that
\* engine is to read the matching uciok, readyok or bestmove, and nothing is
\* read that was not asked for; a search is position, isready, readyok, go,
\* bestmove, isready, readyok, and the job's dialogue ends with that readyok.
C11_LockStep ==
    \A w \in Workers :
        LET c == Core(wire[w]) IN
        /\ \A i \in 1..Len(c) :
              /\ (c[i][1] = "send" /\ c[i][2] \in {"uci", "isready", "go"}) =>
                    /\ i < Len(c) => c[i + 1] = <<"read", Terminal(c[i][2])>>
                    /\ i = Len(c) => awaiting[w] \/ pc[w] \in {"dead", "exc"}
              /\ c[i][1] = "read" =>
                    /\ i > 1
                    /\ c[i - 1][1] = "send"
                    /\ c[i - 1][2] \in {"uci", "isready", "go"}
                    /\ c[i][2] = Terminal(c[i - 1][2])
              /\ c[i] = <<"send", "position">> =>
                    LET n == IF Len(c) - i + 1 < 7 THEN Len(c) - i + 1 ELSE 7
                    IN  SubSeq(c, i, i + n - 1) = SubSeq(SearchWire, 1, n)
              /\ c[i] = <<"send", "go">> => i > 3 /\ c[i - 3] = <<"send", "position">>
        /\ JobDone(w) => /\ Len(c) >= 7
                         /\ SubSeq(c, Len(c) - 6, Len(c)) = SearchWire

C11_Witness ==
    /\ JobDone(FirstWorker)
    /\ path[FirstWorker].kind = "analysis"
    /\ CountEv(wire[FirstWorker], "drop") = 1
    /\ CountEv(wire[FirstWorker], "parse") >= 1

C13_SearchesPerAnalysis ==
    \A w \in Workers :
        (JobDone(w) /\ path[w].kind = "analysis") =>
            Cardinality({i \in 1..Len(wire[w]) : wire[w][i] = <<"send", "go">>})
                = job[w].moves + 1

\* C14: a progress report, whatever its outcome, leaves the worker's job,
\* backoff generator and engine as they were, and the analysis goes on with
\* the search it was about to start.
C14_ReportChangesNothing ==
    [][\A w \in Workers :
          CountEv(wire'[w], "report") > CountEv(wire[w], "report") =>
              /\ job'[w] = job[w]
              /\ backoff'[w] = backoff[w]
              /\ stockfish'[w] = stockfish[w]
              /\ yielded'[w] = yielded[w]
              /\ nextId' = nextId
              /\ pc'[w] = "exec"
              /\ ~awaiting'[w]
              /\ todo'[w] = todo[w]
              /\ Head(todo'[w])[1] = "position"]_vars

C14_Witness ==
    /\ JobDone(FirstWorker)
    /\ \E i \in 1..Len(wire[FirstWorker]) :
          /\ wire[FirstWorker][i] = <<"report", "200">>
          /\ i < Len(wire[FirstWorker])
          /\ wire[FirstWorker][i + 1] = <<"send", "position">>

\* ============================================= shutdown and signal claims

\* C15: stop() clears alive, kills the engine when a handle is present and
\* sets the sleep event, in one step under the status lock; so once stop()
\* has been called on a worker its alive flag is false and its sleep event
\* is set (every later backoff wait returns at once), for ever.
C15_StopSetsSleep ==
    \A w \in Workers : stopCalled[w] => (~alive[w] /\ sleepEv[w])

\* C16: on every way out of the supervisor's main loop the supervisor sets
\* ignore, calls stop() on every worker and waits for every worker's
\* finished event; so when cmd_run has returned or an exception has left it,
\* ignore is set, stop() was called on every worker and every worker has
\* set finished.
C16_LeavesAfterAllFinished ==
    spc \in {"unwind", "exited"} =>
        /\ ignore
        /\ \A w \in Workers : stopCalled[w] /\ finished[w]

\* C17: over any sequence of TERM, INT and USR1 signals the handlers raise
\* at most one exception in total, Shutdown for TERM and INT, UpdateRequired
\* for USR1; once ignore is set, by a handler or by the finally block of
\* cmd_run, a signal that is delivered raises nothing: its handler returns
\* without a trace.  Handlers interrupting one another are included: at most
\* one handler is ever about to raise, and none once one has raised.
RaisePending == Cardinality({i \in DOMAIN hnd : hnd[i].at = "raise"})
C17_AtMostOneRaise ==
    [][ /\ raisedN' + RaisePending' <= 1
        /\ (ignore /\ delivered' # delivered =>
               UNCHANGED <<hnd, raisedN, spc, supExc, ignore>>)
        /\ (raisedN' # raisedN =>
               /\ ignore
               /\ supExc' = RaisedBy(hnd[Len(hnd)].sig)
               /\ supExc' = (IF hnd[Len(hnd)].sig \in {"TERM", "INT"}
                             THEN "Shutdown" ELSE "UpdateRequired")) ]_vars
\* Three signals were delivered, one of them raised, and the process has
\* exited.
C17_Witness ==
    /\ delivered = MaxSignals
    /\ delivered >= 2
    /\ raisedN = 1
    /\ spc = "exited"

Occurs(key, x) ==
    \E i \in 1..(Len(x) - Len(key) + 1) : SubSeq(x, i, i + Len(key) - 1) = key
C19_KeyNeverLogged ==
    (call.fn = "filter" /\ call.keyword # <<>>) =>
        ~Occurs(call.keyword, call.out)

\* C20 (as stated): set_variant_options(v) sends UCI_Chess960, true exactly
\* for fromposition and chess960 whatever their case, then UCI_Variant:
\* chess for standard, fromposition and chess960, giveaway for antichess,
\* and v itself, as given, otherwise.
NamedVariants == {"standard", "fromposition", "chess960", "antichess"}
C20_VariantItself ==
    call.fn = "set_variant_options" =>
        /\ Len(call.sent) = 2
        /\ call.sent[1] = <<"UCI_Chess960",
                            IF call.variant.base \in {"fromposition", "chess960"}
                            THEN Word("true") ELSE Word("false")>>
        /\ call.sent[2][1] = "UCI_Variant"
        /\ call.sent[2][2] =
              CASE call.variant.base \in {"standard", "fromposition", "chess960"}
                       -> Word("chess")
                [] call.variant.base = "antichess" -> Word("giveaway")
                [] OTHER -> call.variant

\* C20 (amended): as above, but every other variant is sent in lower case.
C20_VariantLowered ==
    call.fn = "set_variant_options" =>
        /\ Len(call.sent) = 2
        /\ call.sent[1] = <<"UCI_Chess960",
                            IF call.variant.base \in {"fromposition", "chess960"}
                            THEN Word("true") ELSE Word("false")>>
        /\ call.sent[2][1] = "UCI_Variant"
        /\ call.sent[2][2] =
              CASE call.variant.base \in {"standard", "fromposition", "chess960"}
                       -> Word("chess")
                [] call.variant.base = "antichess" -> Word("giveaway")
                [] OTHER -> Word(call.variant.base)
\* A variant outside the four named ones, written with an upper-case
\* letter, was sent in lower case.
C20_Witness ==
    /\ call.fn = "set_variant_options"
    /\ call.variant.base \notin NamedVariants
    /\ call.variant.caps # {}
    /\ call.sent[2] = <<"UCI_Variant", Word(call.variant.base)>>

\* C21: in the move flow the Skill Level option sent for level 1, 2, ..., 8
\* is 0, 3, 6, 9, 11, 14, 17, 20: an integer in 0..20, non-decreasing in the
\* level.
SkillTable == <<0, 3, 6, 9, 11, 14, 17, 20>>
C21_SkillLevel ==
    /\ call.fn = "bestmove" =>
          /\ call.skill = SkillTable[call.level]
          /\ call.skill \in 0..20
    /\ \A l1, l2 \in Levels :
          l1 <= l2 => \A s1 \in SkillLevels(l1), s2 \in SkillLevels(l2) : s1 <= s2
\* Level 5 was played, with Skill Level 11 (20 * 4 / 7 = 11.43 rounded).
C21_Witness ==
    /\ call.fn = "bestmove"
    /\ call.level = 5
    /\ call.skill = 11

\* C22: the go line lists the supplied budgets in the order movetime, depth,
\* nodes, then the clock as wtime and btime in milliseconds (centiseconds
\* times 10) and winc = binc = the increment in milliseconds, leaving out
\* what is absent; for a move job at level L on a worker with one thread it
\* is movetime LVL_MOVETIMES[L-1] depth LVL_DEPTHS[L-1], followed by the
\* four clock fields when the job has a clock.
Names(line) == [i \in DOMAIN line |-> line[i][1]]
FieldOrder == <<"movetime", "depth", "nodes", "wtime", "btime", "winc", "binc">>
Pos(name) == CHOOSE i \in DOMAIN FieldOrder : FieldOrder[i] = name
ValuesOf(line, name) == {line[i][2] : i \in {k \in DOMAIN line : line[k][1] = name}}
ExpectedOf(name, arg) == IF arg = <<>> THEN {} ELSE {arg[1]}
C22_GoLine ==
    /\ call.fn = "go" =>
          /\ \A i, k \in DOMAIN call.line :
                i < k => Pos(call.line[i][1]) < Pos(call.line[k][1])
          /\ ValuesOf(call.line, "movetime") = ExpectedOf("movetime", call.movetime)
          /\ ValuesOf(call.line, "depth") = ExpectedOf("depth", call.depth)
          /\ ValuesOf(call.line, "nodes") = ExpectedOf("nodes", call.nodes)
          /\ \A c \in Clocks :
                call.clock = <<c>> =>
                    /\ ValuesOf(call.line, "wtime") = {c.wtime * 10}
                    /\ ValuesOf(call.line, "btime") = {c.btime * 10}
                    /\ ValuesOf(call.line, "winc") = {c.inc * 1000}
                    /\ ValuesOf(call.line, "binc") = {c.inc * 1000}
          /\ call.clock = <<>> =>
                \A n \in {"wtime", "btime", "winc", "binc"} :
                    ValuesOf(call.line, n) = {}
    /\ (call.fn = "bestmove" /\ call.threads = 1) =>
          /\ SubSeq(call.line, 1, 2) =
                << <<"movetime", LVL_MOVETIMES[call.level]>>,
                   <<"depth", LVL_DEPTHS[call.level]>> >>
          /\ call.clock = <<>> => Len(call.line) = 2
          /\ \A c \in Clocks :
                call.clock = <<c>> =>
                    SubSeq(call.line, 3, Len(call.line)) =
                        << <<"wtime", c.wtime * 10>>, <<"btime", c.btime * 10>>,
                           <<"winc", c.inc * 1000>>, <<"binc", c.inc * 1000>> >>
\* Level 4 with the clock 6000/6000/0 on one thread:
\* go movetime 200 depth 3 wtime 60000 btime 60000 winc 0 binc 0.
C22_Witness ==
    /\ call.fn = "bestmove"
    /\ call.level = 4
    /\ call.threads = 1
    /\ call.line = << <<"movetime", 200>>, <<"depth", 3>>, <<"wtime", 60000>>,
                      <<"btime", 60000>>, <<"winc", 0>>, <<"binc", 0>> >>

\* C26: for cores >= 1 and 1 <= threads_per_process <= cores the supervisor
\* creates max(1, cores // threads_per_process) workers whose thread counts
\* sum to cores, are each at least 1 and differ pairwise by at most 1, and
\* every worker gets memory = total_memory // instances.
RECURSIVE SumThreads(_)
SumThreads(ws) == IF ws = <<>> THEN 0 ELSE Head(ws).threads + SumThreads(Tail(ws))
C26_Buckets ==
    call.fn = "cmd_run" =>
        LET n == Len(call.workers) IN
        /\ n = (IF call.cores \div call.threads >= 1
                THEN call.cores \div call.threads ELSE 1)
        /\ SumThreads(call.workers) = call.cores
        /\ \A i \in 1..n : call.workers[i].threads >= 1
        /\ \A i, k \in 1..n :
              call.workers[i].threads - call.workers[k].threads \in {-1, 0, 1}
        /\ \A i \in 1..n : call.workers[i].memory = call.memory \div n
\* Several workers were created whose thread counts differ, with a total
\* memory that the number of workers does not divide.
C26_Witness ==
    /\ call.fn = "cmd_run"
    /\ Len(call.workers) >= 2
    /\ call.workers[1].threads = call.workers[2].threads + 1
    /\ call.memory % Len(call.workers) # 0

\* ------------------------------------------------------ info line claims
\* A step that reads one token of an info line.
TokenRead == call.fn = "parse" /\ call'.fn = "parse"
                 /\ call'.c.tokens = call.c.tokens + 1
\* The tokens of a line after its first "string" token.
AfterString(line) ==
    LET at == CHOOSE i \in 1..Len(line) :
                  line[i] = "string" /\ \A j \in 1..(i - 1) : line[j] # "string"
    IN  SubSeq(line, at + 1, Len(line))
HasToken(line, tok) == \E i \in 1..Len(line) : line[i] = tok
\* The parser with the string field and the token count put aside.
But(c) == [c EXCEPT !.info.string = <<>>, !.tokens = 0]

\* C23: once the token "string" has been seen in an info line, every later
\* token of the line, keywords included, is appended to the string field,
\* which then holds exactly the tokens after "string" in order, and the
\* token changes nothing else: no other field, no pending score, no error.
C23_StringTakesRest ==
    [][(TokenRead /\ HasToken(call.h.line, "string"))
          => /\ call'.c.info.string = << AfterString(call'.h.line) >>
             /\ But(call'.c) = But(call.c)]_vars
\* "info string e2e4 depth 1": the keyword and its value are text.
C23_Witness ==
    /\ call.fn = "parse"
    /\ call.h.line = <<"string", "e2e4", "depth", "1">>
    /\ call.c.info.string = << <<"e2e4", "depth", "1">> >>
    /\ call.c.info.depth = <<>>

\* A step that ends an info line.
LineOver == call.fn = "parse" /\ call'.fn = "parse"
                /\ call.c.inLine /\ ~call'.c.inLine
\* The positions of a line whose token is read as a word of the score: it
\* follows a "score" token with no other keyword in between.
ScoreAt(line) ==
    {i \in 1..Len(line) : /\ Ctx(SubSeq(line, 1, i - 1)) = "score"
                          /\ Ctx(SubSeq(line, 1, i)) = "score"}
HasBound(line) == \E i \in ScoreAt(line) : line[i] \in ScoreBounds
\* The scores a line can give: a kind and, after it, an integer.
ScoresOf(line) ==
    {[kind |-> line[i], value |-> IntOf(line[j])] :
        <<i, j>> \in {p \in ScoreAt(line) \X ScoreAt(line) :
                         /\ p[1] < p[2]
                         /\ line[p[1]] \in ScoreKinds
                         /\ line[p[2]] \in IntTokens}}

\* C24: the score field changes only at the end of an info line whose score
\* carries a kind and an integer value and no lowerbound/upperbound word,
\* and then to that kind and value; a line whose score carries a bound
\* leaves the field exactly as it was before the line.
C24_ScoreOnlyWhenExact ==
    [][(call.fn = "parse" /\ call'.fn = "parse")
          => /\ call'.c.info.score # call.c.info.score
                  => /\ LineOver
                     /\ ~HasBound(call.h.line)
                     /\ \E sc \in ScoresOf(call.h.line) :
                            call'.c.info.score = <<sc>>
             /\ (LineOver /\ HasBound(call.h.line))
                  => call'.c.info.score = call.h.before]_vars
\* "info score cp 1 lowerbound" has been read and the score is absent.
C24_Witness ==
    /\ call.fn = "parse"
    /\ ~call.c.inLine
    /\ call.h.line = <<"score", "cp", "1", "lowerbound">>
    /\ call.c.info.score = <<>>

\* The pv part of C25: pv is the tokens of the most recent pv run read while
\* multipv was 1 or absent, and absent when there is none or it is empty.
PvIsLastRun == call.c.info.pv = call.h.run

\* C25 as stated, at the points between info lines: each integer field is
\* the last value given for its keyword in the lines read so far.
C25_LastValueGiven ==
    (call.fn = "parse" /\ call.c.status = "ok" /\ ~call.c.inLine)
        => /\ \A k \in IntParams : call.c.info[k] = call.h.given[k]
           /\ PvIsLastRun
\* C25, amended: at every point of a search each integer field is the value
\* given after the most recent occurrence of its keyword, absent when that
\* occurrence has been followed by no value; pv is as stated, so pv runs read
\* while multipv is not 1 leave it unchanged.
C25_ValueSinceKeyword ==
    (call.fn = "parse" /\ call.c.status = "ok")
        => /\ \A k \in IntParams : call.c.info[k] = call.h.since[k]
           /\ PvIsLastRun
\* A line has ended on the keyword depth: the value given earlier is gone.
C25_Witness ==
    /\ call.fn = "parse"
    /\ call.c.status = "ok"
    /\ ~call.c.inLine
    /\ call.h.given["depth"] = <<1>>
    /\ call.h.line[Len(call.h.line)] = "depth"
    /\ call.c.info.depth = <<>>

\* ------------------------------------------------- error handling claims
\* The last entries of a trail.
EndsWith(tr, es) ==
    Len(tr) >= Len(es) /\ SubSeq(tr, Len(tr) - Len(es) + 1, Len(tr)) = es
\* The abort POST the dead-engine branch attempts for the job in hand.
AbortAttempt(w) ==
    IF job[w] = None
    THEN abortTried' = abortTried /\ trail'[w] = trail[w]
    ELSE /\ abortTried' = abortTried \cup {job[w].id}
         /\ trail'[w] = Append(trail[w], <<"abort", job[w].id>>)

\* C27 as stated: on a dead-engine error an alive worker attempts the abort
\* POST only after it has slept the backoff value and killed the engine; a
\* worker that is no longer alive draws no value, neither sleeps nor kills,
\* and only attempts the abort.
C27_AbortAfterKill ==
    [][\A w \in Workers :
          (pc[w] = "dead" /\ pc'[w] # "dead") =>
              IF alive[w]
              THEN abortTried' # abortTried
                      => EndsWith(trail[w], << <<"sleep", 0>>, <<"kill", 0>> >>)
              ELSE /\ drawn'[w] = drawn[w] /\ backoff'[w] = backoff[w]
                   /\ pc'[w] = "loop" /\ stockfish'[w] = stockfish[w]
                   /\ AbortAttempt(w)]_vars
\* C27, amended: on a dead-engine error an alive worker draws one backoff
\* value and attempts the abort POST for the job in hand, emptying the slot;
\* then it sleeps the value, and only then calls kill on the engine handle,
\* after which no abort is attempted; a worker that is no longer alive draws
\* no value, neither sleeps nor kills, and only attempts the abort.
C27_AbortThenSleepThenKill ==
    [][\A w \in Workers :
          /\ (pc[w] = "dead" /\ pc'[w] # "dead") =>
                /\ AbortAttempt(w)
                /\ job'[w] = None
                /\ stockfish'[w] = stockfish[w]
                /\ IF alive[w]
                   THEN /\ drawn'[w] = drawn[w] + 1
                        /\ t'[w] # NoT
                        /\ pc'[w] = "sleep_dead"
                   ELSE /\ drawn'[w] = drawn[w] /\ backoff'[w] = backoff[w]
                        /\ t'[w] = t[w]
                        /\ pc'[w] = "loop"
          /\ (pc[w] = "sleep_dead" /\ pc'[w] # "sleep_dead") =>
                /\ pc'[w] = "kill_dead"
                /\ trail'[w] = Append(trail[w], <<"sleep", 0>>)
                /\ stockfish'[w] = stockfish[w]
                /\ abortTried' = abortTried /\ drawn'[w] = drawn[w]
          /\ (pc[w] = "kill_dead" /\ pc'[w] # "kill_dead") =>
                /\ abortTried' = abortTried /\ drawn'[w] = drawn[w]
                /\ job'[w] = None
                /\ IF KillRaises(stockfish[w]) = "none"
                   THEN /\ pc'[w] = "loop"
                        /\ stockfish'[w] # "running"
                        /\ trail'[w] = Append(trail[w], <<"kill", 0>>)
                   ELSE /\ pc'[w] = "finish"
                        /\ fatal_error'[w] = KillRaises(stockfish[w])]_vars
\* An alive worker that held job 1 has aborted it and slept, and is about to
\* kill the engine.
C27_Witness ==
    /\ pc[FirstWorker] = "kill_dead"
    /\ aliveLocal[FirstWorker]
    /\ EndsWith(trail[FirstWorker],
                << <<"eof", 1>>, <<"abort", 1>>, <<"sleep", 0>> >>)

\* The handler of C28, step by step: the worker clears the job with no
\* abort, draws one backoff value and sleeps it, then kills the engine.
ExceptTail == << <<"except", 0>>, <<"sleep", 0>>, <<"kill", 0>> >>
C28_ClearSleepKill ==
    [][\A w \in Workers :
          /\ (pc[w] = "exc" /\ pc'[w] # "exc") =>
                /\ job'[w] = None
                /\ abortTried' = abortTried
                /\ drawn'[w] = drawn[w] + 1
                /\ t'[w] # NoT
                /\ stockfish'[w] = stockfish[w]
                /\ pc'[w] = "sleep_exc"
          /\ (pc[w] = "sleep_exc" /\ pc'[w] # "sleep_exc") =>
                /\ pc'[w] = "kill_exc"
                /\ trail'[w] = Append(trail[w], <<"sleep", 0>>)
                /\ drawn'[w] = drawn[w]
          /\ (pc[w] = "kill_exc" /\ pc'[w] # "kill_exc") =>
                /\ pc'[w] = "loop"
                /\ stockfish'[w] # "running"
                /\ EndsWith(trail'[w], ExceptTail)
                /\ drawn'[w] = drawn[w]]_vars
\* C28: after an exception that is neither an HTTP status error nor a
\* dead-engine error, once the worker has cleared the job, slept one backoff
\* value and killed the engine, the next iteration starts a new engine
\* before it does any work.
C28_RestartsNextIteration ==
    [][\A w \in Workers :
          (EndsWith(prev[w], ExceptTail) /\ pc[w] = "poll" /\ pc'[w] # "poll")
              => pc'[w] = "spawn"]_vars

\* What C29 says of worker w's step from the run loop's POST when the reply
\* is a 5xx, or a 4xx with one of the given bodies, of the sleep that
\* follows, and of the result being posted.
HttpErrorBackoff(w, bodies) ==
    LET isErr(resp) == resp[1] = "5xx" \/ (resp[1] = "4xx" /\ resp[2] \in bodies)
    IN  /\ (pc[w] = "post" /\ pc'[w] # "post" /\ isErr(lastResp'[w])) =>
              /\ job'[w] = None
              /\ abortTried' = abortTried
              /\ drawn'[w] = drawn[w] + 1
              /\ t'[w] # NoT
              /\ pc'[w] = "sleep_http"
              /\ stockfish'[w] = stockfish[w]
              /\ path[w].kind # "acquire" => path[w].id \notin resultPosted
        /\ (pc[w] = "sleep_http" /\ pc'[w] # "sleep_http" /\ isErr(lastResp[w])) =>
              /\ pc'[w] = "loop"
              /\ trail'[w] = Append(trail[w], <<"sleep", 0>>)
              /\ job'[w] = None
              /\ drawn'[w] = drawn[w]
              /\ stockfish'[w] = stockfish[w]
        /\ (pc[w] = "poll" /\ pc'[w] # "poll" /\ stockfish[w] = "running"
              /\ EndsWith(prev[w], << <<"sleep", 0>> >>)) => pc'[w] = "work"
\* The 4xx bodies without the upgrade message, and those among them from
\* which the handler gets an error text or a KeyError or ValueError.
NoUpgradeBodies == Bodies4xx \ {"upgrade", "errlist_has"}
PlainBodies == {b \in NoUpgradeBodies : Classify4xx(b) = "backoff"}
C29_PlainBodies == [][\A w \in Workers : HttpErrorBackoff(w, PlainBodies)]_vars

\* C29: a 5xx, or a 4xx without the upgrade message, on the run loop's POST
\* makes the worker clear its job with no abort POST, draw exactly one
\* backoff value and sleep it, and leaves the engine as it is, not killed
\* and not restarted by the next iteration; the result is not posted again.
C29_HttpErrorBacksOff ==
    [][\A w \in Workers : HttpErrorBackoff(w, NoUpgradeBodies)]_vars

\* C30: abort_job never raises when the abort POST fails, by an HTTP status
\* error or a transport failure: the handler that called it goes on to its
\* sleep (an alive worker) or to the loop test with no fatal error; the job
\* slot is empty afterwards whatever became of the POST; and with no job in
\* hand no request is sent.
C30_AbortNeverRaises ==
    [][\A w \in Workers :
          (pc[w] = "dead" /\ pc'[w] # "dead") =>
              /\ job'[w] = None
              /\ fatal_error'[w] = fatal_error[w]
              /\ pc'[w] = IF alive[w] THEN "sleep_dead" ELSE "loop"
              /\ IF job[w] = None
                 THEN /\ abortResp'[w] = "none"
                      /\ abortTried' = abortTried
                      /\ trail'[w] = trail[w]
                 ELSE /\ abortResp'[w] \in AbortOutcomes
                      /\ trail'[w] = Append(trail[w], <<"abort", job[w].id>>)]_vars
\* The abort POST for job 1 has failed on the connection; the worker holds
\* no job and is on its way to the sleep.
C30_Witness ==
    /\ abortResp[FirstWorker] = "ioerror"
    /\ <<"abort", 1>> \in {trail[FirstWorker][i] : i \in 1..Len(trail[FirstWorker])}
    /\ job[FirstWorker] = None
    /\ pc[FirstWorker] = "sleep_dead"
    /\ fatal_error[FirstWorker] = "none"

\* ------------------------------------------------- engine start and work
\* What passes between the worker and a new engine during a start.
StartWire == << <<"send", "uci">>, <<"read", "uciok">>,
                <<"send", "setoption threads">>, <<"send", "setoption hash">>,
                <<"send", "isready">>, <<"read", "readyok">> >>
IsPrefix(a, b) == Len(a) <= Len(b) /\ a = SubSeq(b, 1, Len(a))
Events(tr, tags) == {i \in 1..Len(tr) : tr[i][1] \in tags}
\* Worker w has started an engine in this iteration and is past the start.
StartedHere(w) == trail[w] # <<>> /\ trail[w][1] = <<"spawn", 0>>
\* The start of this iteration's engine has run to its end.
StartDone(w) ==
    /\ Len(cmds[w]) >= 4
    /\ SubSeq(cmds[w], 1, 4) = <<"uci", "setoption threads", "setoption hash", "isready">>
\* A new engine is started only as the first thing of an iteration and only
\* over no handle or a handle whose process has exited and been polled.
StartsOnlyAtTop ==
    \A w \in Workers :
        (stockfish'[w] = "running" /\ stockfish[w] # "running") =>
            /\ pc[w] = "spawn"
            /\ trail[w] = <<>>
            /\ stockfish[w] \in {"none", "reaped"}
            /\ trail'[w] = << <<"spawn", 0>> >>
\* During a start the dialogue is a prefix of StartWire, and no job is
\* executed and no POST of the given kinds is made in an iteration that
\* started an engine before the start is done.
StartBefore(w, posts) ==
    /\ \A i \in 2..Len(trail[w]) : trail[w][i][1] # "spawn"
    /\ pc[w] = "handshake" => StartedHere(w) /\ IsPrefix(wire[w], StartWire)
    /\ (pc[w] = "work" /\ StartedHere(w)) => wire[w] = StartWire
    /\ (StartedHere(w) /\ pc[w] \in {"work", "exec", "post"}) => StartDone(w)
    /\ (StartedHere(w) /\ Events(trail[w], posts) # {}) => StartDone(w)

Posts(tr) == Events(tr, {"acquire", "result"})
Searches(tr) == Cardinality({i \in 1..Len(tr) : tr[i] = <<"send", "go">>})

\* C32: an iteration that reaches the HTTP step makes exactly one run-loop
\* POST: for an analysis or move job in hand, to <type>/<id> of that job,
\* which this iteration has just executed on the engine; with no job in
\* hand, to acquire, with no search made.
C32_OnePostPerIteration ==
    /\ [](\A w \in Workers :
            /\ Cardinality(Posts(trail[w])) <= 1
            /\ pc[w] = "post" => Posts(trail[w]) = {})
    /\ [][\A w \in Workers :
            (pc[w] = "post" /\ pc'[w] # "post") =>
                /\ Cardinality(Posts(trail'[w])) = 1
                /\ job[w].type \in {"analysis", "move"} =>
                      /\ path[w] = [kind |-> job[w].type, id |-> job[w].id]
                      /\ trail'[w] = Append(trail[w], <<"result", job[w].id>>)
                      /\ Searches(wire[w]) >= 1
                      /\ wire[w][Len(wire[w])] = <<"read", "readyok">>
                /\ job[w] = None =>
                      /\ path[w].kind = "acquire"
                      /\ trail'[w] = Append(trail[w], <<"acquire", 0>>)
                      /\ Searches(wire[w]) = 0]_vars
\* The result of move job 1 has been POSTed to move/1 after an acquire in
\* the iteration before.
C32_Witness ==
    /\ Posts(prev[FirstWorker]) # {}
    /\ \E i \in Posts(trail[FirstWorker]) : trail[FirstWorker][i] = <<"result", 1>>
    /\ resultPosted = {1}

\* ------------------------------------------------- search result claims
\* C33: go() returns with bestmove null when the engine's bestmove line
\* carries (none) or no move at all, and with the first token after
\* bestmove otherwise; it fails in none of these cases.
C33_BestmoveOrNull ==
    call.fn = "go_bestmove" =>
        /\ call.out.raised = "none"
        /\ call.out.bestmove = IF call.args = <<>> THEN <<>>
                               ELSE IF call.args[1] = "(none)" THEN <<>>
                               ELSE <<call.args[1]>>
\* For a line that carries (none) or a move the claim holds.
C33_WithToken ==
    (call.fn = "go_bestmove" /\ call.args # <<>>) =>
        /\ call.out.raised = "none"
        /\ call.out.bestmove = IF call.args[1] = "(none)" THEN <<>>
                               ELSE <<call.args[1]>>

\* What post-validation is to leave of a search result.
Validated(part) ==
    IF part.nps # <<>> /\ part.nps[1] >= 100000000
    THEN [part EXCEPT !.nps = <<>>] ELSE part
\* C34: post-validation of an analysis search result changes nothing in it
\* except deleting nps when nps >= 100,000,000, and never fails: a result
\* with no score at all, or with no time, is stored and the analysis goes on.
C34_ValidationNeverFails ==
    call.fn = "validate" =>
        /\ call.out.raised = "none"
        /\ call.out.part = Validated(call.part)
\* For a result that has a score the claim holds, with or without time.
C34_WithScore ==
    (call.fn = "validate" /\ call.part.score # <<>>) =>
        /\ call.out.raised = "none"
        /\ call.out.part = Validated(call.part)

\* ------------------------------------------------- analysis loop claims
\* The largest element of a non-empty set of numbers.
Latest(S) == CHOOSE x \in S : \A y \in S : y <= x
\* When the last report before the i-th loop iteration was delivered, or
\* when the analysis started.
LastDelivered(log, i) ==
    Latest({call.start} \cup
           {log[k].done : k \in {k \in 1..(i - 1) : log[k].sent /\ log[k].ok}})
\* C35: before each ply's search a progress report is POSTed if and only if
\* more than PROGRESS_REPORT_INTERVAL seconds have passed since the last
\* delivered report (or since the analysis started); no ply has two reports;
\* a report that failed leaves the timer alone, so the next ply reports again.
C35_ReportWhenDue ==
    call.fn = "analysis" =>
        LET log == call.log
        IN  /\ \A i \in DOMAIN log :
                 log[i].sent <=>
                    log[i].at - LastDelivered(log, i) > PROGRESS_REPORT_INTERVAL
            /\ \A i, k \in DOMAIN log : log[i].ply = log[k].ply => i = k
            /\ \A i \in DOMAIN log :
                 (log[i].sent /\ ~log[i].ok /\ i + 1 \in DOMAIN log)
                    => log[i + 1].sent
\* A failed report, then a delivered one at the next ply, then a ply with no
\* report.
C35_Witness ==
    /\ call.fn = "analysis"
    /\ Len(call.log) = 3
    /\ call.log[1].sent /\ ~call.log[1].ok
    /\ call.log[2].sent /\ call.log[2].ok
    /\ ~call.log[3].sent
    /\ call.log[3].at > call.log[2].done


\* The indices of the array that hold a result.
Filled(analysis) == {i \in DOMAIN analysis : analysis[i] # <<>>}
\* The indices above a ply.
Above(len, ply) == {i \in 0..len : i > ply}
\* While the loop runs the filled entries are those above the current ply,
\* in the array and in the body of every report; after the loop all are.
SuffixFilled ==
    call.fn = "analysis" =>
        /\ DOMAIN call.analysis = 0..call.len
        /\ call.at # "done" => Filled(call.analysis) = Above(call.len, call.ply)
        /\ call.at = "done" => Filled(call.analysis) = 0..call.len
        /\ \A i \in DOMAIN call.log :
              Filled(call.log[i].body) = Above(call.len, call.log[i].ply)
\* A step of the analysis leaves every filled entry as it is.
EntriesKept ==
    (call.fn = "analysis" /\ call'.fn = "analysis") =>
        \A i \in Filled(call.analysis) : call'.analysis[i] = call.analysis[i]
\* C36: at every point of an analysis, and so in every progress report, the
\* non-null entries of the analysis array are exactly the indices greater
\* than the ply being searched, and an entry once written is never changed
\* or reset to null.
C36_SuffixFilledAndKept == [](SuffixFilled) /\ [][EntriesKept]_vars
\* The last ply of a game of two moves is being searched, two different
\* results are stored, and a report went out with one of them.
C36_Witness ==
    /\ call.fn = "analysis"
    /\ call.len = 2
    /\ call.ply = 0
    /\ call.at = "search"
    /\ call.analysis[1] # call.analysis[2]
    /\ \E i \in DOMAIN call.log :
          call.log[i].sent /\ Filled(call.log[i].body) = {2}


\* ------------------------------------------------------ move flow claims
\* What the move flow is to send, by the words of its lines.
MoveWords == <<"setoption", "setoption", "setoption", "isready",
               "position", "isready", "go", "isready">>
\* The names of the fields of a go line.
FieldNames(line) == {line[i][1] : i \in DOMAIN line}
\* The lines sent so far are the start of the flow: variant options, Skill
\* Level, isready (answered before the search starts), then the search,
\* whose go line has movetime and depth, and the clock just when the job
\* has one.
MoveOrder ==
    /\ Len(call.sent) <= Len(MoveWords)
    /\ \A i \in DOMAIN call.sent : call.sent[i][1] = MoveWords[i]
    /\ Len(call.sent) >= 1 => call.sent[1][2][1] = "UCI_Chess960"
    /\ Len(call.sent) >= 2 => call.sent[2][2][1] = "UCI_Variant"
    /\ Len(call.sent) >= 3 => call.sent[3][2][1] = "Skill Level"
    /\ Len(call.sent) >= 5 => call.readies >= 1
    /\ Len(call.sent) >= 7 =>
          FieldNames(call.sent[7][2]) =
             {"movetime", "depth"} \cup
             (IF call.clock = <<>> THEN {}
              ELSE {"wtime", "btime", "winc", "binc"})
\* A flow that returned has sent all its lines, and its result carries the
\* first word after bestmove (null for "(none)"); the counter has grown by
\* one then, and not before.
MoveResult ==
    IF call.at = "returned"
    THEN /\ Len(call.sent) = Len(MoveWords)
         /\ call.heard # <<>>
         /\ call.heard[1] # <<>>
         /\ call.result[1].bestmove = IF call.heard[1][1] = "(none)" THEN <<>>
                                      ELSE <<call.heard[1][1]>>
         /\ call.positions = call.before + 1
    ELSE /\ call.result = <<>>
         /\ call.positions = call.before
\* C37: the move flow sends, in order, the two variant options, the Skill
\* Level option, isready, and then exactly one search whose go line carries
\* movetime and depth (and the clock when the job has one); the result's
\* bestmove is that search's bestmove and positions grows by exactly 1.
C37_MoveFlow == call.fn = "move" => (MoveOrder /\ MoveResult)
\* A move job with a clock has returned a move.
C37_Witness ==
    /\ call.fn = "move"
    /\ call.at = "returned"
    /\ call.clock # <<>>
    /\ call.result[1].bestmove = <<"e2e4">>
    /\ call.before = 1


\* ------------------------------------------------- a job is done once
\* Worker w's step got job'[w] from the server as the reply to its POST: a
\* job that was never handed out before.
JustAcquired(w) ==
    /\ pc[w] = "post"
    /\ lastResp'[w][1] = "200" /\ lastResp'[w][2] = "job"
    /\ job'[w] = lastResp'[w][3]
    /\ job'[w].id = nextId
    /\ job'[w].id \notin resultPosted' \cup abortTried'
\* C38: after the run loop has POSTed the result of job J, J is no longer
\* the worker's job, whatever the outcome of the POST, so the worker never
\* executes or reports an acquired job twice: a result is POSTed for the job
\* in hand, which was not posted or aborted before; the step of the POST or
\* of the handler it leads to takes J away; an iteration starts only with no
\* job or with one acquired by the step that ended the iteration before;
\* and the job an iteration executes was not posted or aborted before.
OneResultPerJob(w) ==
    /\ (pc[w] = "post" /\ pc'[w] # "post" /\ path[w].kind # "acquire") =>
          /\ job[w] # None
          /\ path[w].id = job[w].id
          /\ path[w].id \notin resultPosted \cup abortTried
          /\ IF pc'[w] \in {"dead", "exc"} THEN job'[w] = job[w]
             ELSE job'[w] = None \/ job'[w].id # path[w].id
    /\ (pc[w] \in {"dead", "exc"} /\ pc'[w] # pc[w]) => job'[w] = None
    /\ (pc[w] # "loop" /\ pc'[w] = "loop") => (job'[w] = None \/ JustAcquired(w))
    /\ (pc[w] = "work" /\ pc'[w] = "exec") =>
          job[w].id \notin resultPosted \cup abortTried
C38_ResultPostDropsJob == [][\A w \in Workers : OneResultPerJob(w)]_vars
\* The result of job 1 was POSTed and answered with job 2, which the next
\* iteration is about to start on.
C38_Witness ==
    \E w \in Workers :
        /\ pc[w] = "loop"
        /\ path[w].kind # "acquire" /\ path[w].id = 1
        /\ lastResp[w][1] = "200" /\ lastResp[w][2] = "job"
        /\ job[w].id = 2
        /\ resultPosted = {1}


\* ------------------------------------------------ stop() and the engine
\* C39: for every interleaving of stop() with a worker's run loop, once the
\* worker has set finished it owns no live engine process: every engine it
\* started has been killed or has exited, also one spawned while or after
\* stop() ran.
C39_NoLiveEngineWhenFinished ==
    \A w \in Workers :
        (stopCalled[w] /\ finished[w]) => stockfish[w] # "running"
\* When stop() found a running engine and nothing was spawned afterwards,
\* the engine of a finished worker has been sent SIGKILL or has gone.
C39_StopKillsTheEngineItFinds ==
    [][\A w \in Workers :
          (stockfish[w] = "running" /\ ~stopCalled[w] /\ stopCalled'[w])
              => stockfish'[w] = "killed"]_vars


\* ------------------------------------------- a POST that fails to arrive
\* The run loop's POST of worker w's iteration failed below HTTP.
PostFailed(w) == lastResp[w][1] = "ioerror"
\* A trail of an iteration whose POST failed below HTTP: it has the POST,
\* no other exception, and ends with the sleep and the kill.
IoFailedTrail(tr) ==
    /\ EndsWith(tr, << <<"sleep", 0>>, <<"kill", 0>> >>)
    /\ \E i \in DOMAIN tr : tr[i][1] \in {"acquire", "result"}
    /\ \A i \in DOMAIN tr : tr[i][1] # "except"
\* The dead-engine branch after such a POST, step by step: the job in hand
\* is aborted and cleared; an alive worker draws one backoff value, sleeps
\* it and kills its engine.
TransportFailureHandled(w) ==
    /\ (pc[w] = "post" /\ pc'[w] # "post" /\ lastResp'[w][1] = "ioerror") =>
          /\ pc'[w] = "dead"
          /\ job'[w] = job[w]
          /\ stockfish'[w] = stockfish[w]
    /\ (PostFailed(w) /\ pc[w] = "dead" /\ pc'[w] # "dead") =>
          /\ AbortAttempt(w)
          /\ job'[w] = None
          /\ stockfish'[w] = stockfish[w]
          /\ IF alive[w]
             THEN drawn'[w] = drawn[w] + 1 /\ t'[w] # NoT /\ pc'[w] = "sleep_dead"
             ELSE drawn'[w] = drawn[w] /\ pc'[w] = "loop"
    /\ (PostFailed(w) /\ pc[w] = "sleep_dead" /\ pc'[w] # "sleep_dead") =>
          /\ pc'[w] = "kill_dead"
          /\ drawn'[w] = drawn[w]
          /\ stockfish'[w] = stockfish[w]
    /\ (PostFailed(w) /\ pc[w] = "kill_dead" /\ pc'[w] # "kill_dead") =>
          /\ pc'[w] = "loop"
          /\ stockfish'[w] # "running"
          /\ IoFailedTrail(trail'[w])
C40_TransportFailureHandled ==
    [][\A w \in Workers : TransportFailureHandled(w)]_vars
\* C40: a transport-level failure of the run loop's POST is handled by the
\* dead-engine branch: an abort POST is attempted for the current job and
\* the job is cleared, and a worker that is alive sleeps one backoff value
\* and force-kills its engine although it was healthy, so that the next
\* iteration restarts the engine.
C40_TransportFailureRestartsEngine ==
    [][\A w \in Workers :
          /\ TransportFailureHandled(w)
          /\ (IoFailedTrail(prev[w]) /\ pc[w] = "poll" /\ pc'[w] # "poll")
                => pc'[w] = "spawn"]_vars


====
